---- MODULE Spec2Model ----
(***************************************************************************)
(* Model of the claude-code MCP server (src/src/server.ts): the tool-call  *)
(* handler, resolveWorkFolder, spawnAsync and its child-process events,    *)
(* parseClaudeOutput and buildResponse.                                    *)
(*                                                                         *)
(* A JavaScript string is a sequence of atoms; an atom is one character    *)
(* or an indivisible run of characters ("ok", "abc123", ...).  Hence ""    *)
(* is << >>, concatenation is \o, and includes() is contiguous            *)
(* subsequence.                                                            *)
(***************************************************************************)
EXTENDS Integers, Sequences, FiniteSets, TLC

(***************************************************************************)
(* Bounds of the model.                                                    *)
(***************************************************************************)
\* number of request slots (tool calls in one behaviour)
MaxReq == 1
Req == 1 .. MaxReq

\* number of request slots where calls are in flight together
MaxInFlight == 2
Slots == 1 .. MaxInFlight

VARIABLES
    fs,             \* the paths that exist on the filesystem
    env,            \* process.env.CLAUDE_CLI_NAME
    started,        \* the constructor: "no" before it ran, then "yes" or "threw"
    claudeCliPath,  \* ClaudeCodeServer.claudeCliPath
    isFirstToolUse, \* module-level flag
    bannerCount,    \* number of version banners written to the log
    request,        \* request[r]: the tool call of slot r, or NoCall
    answer,         \* answer[r]: what the call was answered with
    spawnCount,     \* spawnCount[r]: calls of spawn() made for r
    spawnOpts,      \* spawnOpts[r]: command, args and options given to spawn()
    stdout,         \* spawnAsync closure: accumulated stdout
    stderr,         \* spawnAsync closure: accumulated stderr
    settled,        \* spawnAsync closure: the settled flag
    settleCalls,    \* number of resolve()/reject() calls on r's promise
    promise,        \* state and value of the promise spawnAsync returned
    child           \* the child process of r, as the operating system has it

vars ==
    <<fs, env, started, claudeCliPath, isFirstToolUse, bannerCount, request, answer,
      spawnCount, spawnOpts, stdout, stderr, settled, settleCalls, promise, child>>

(***************************************************************************)
(* Strings.                                                                *)
(***************************************************************************)
WhiteSpace == {" ", "\t", "\n"}

RECURSIVE TrimStart(_)
TrimStart(s) ==
    IF s = << >> THEN << >>
    ELSE IF Head(s) \in WhiteSpace THEN TrimStart(Tail(s)) ELSE s

RECURSIVE TrimEnd(_)
TrimEnd(s) ==
    IF s = << >> THEN << >>
    ELSE IF s[Len(s)] \in WhiteSpace THEN TrimEnd(SubSeq(s, 1, Len(s) - 1)) ELSE s

\* String.prototype.trim
Trim(s) == TrimEnd(TrimStart(s))

\* String.prototype.includes
Includes(s, t) ==
    \E i \in 1 .. (Len(s) - Len(t) + 1) : SubSeq(s, i, i + Len(t) - 1) = t

\* String.prototype.startsWith
StartsWith(s, t) == Len(s) >= Len(t) /\ SubSeq(s, 1, Len(t)) = t

\* A chunk of a child's output is a Buffer.  Its atoms are decoded text,
\* except for the two bytes of one two-byte UTF-8 character, which are atoms
\* of their own so that a chunk can end between them.
LeadByte == "<C3>"
ContByte == "<A9>"

\* Buffer.prototype.toString: a complete byte sequence gives its character
\* (U+00E9), a byte sequence cut off by the end of the buffer, or a
\* continuation byte without its lead byte, gives U+FFFD
RECURSIVE toString(_)
toString(data) ==
    IF data = << >> THEN << >>
    ELSE IF Head(data) = LeadByte
    THEN IF Len(data) >= 2 /\ data[2] = ContByte
         THEN <<"<U+00E9>">> \o toString(SubSeq(data, 3, Len(data)))
         ELSE <<"<U+FFFD>">> \o toString(Tail(data))
    ELSE IF Head(data) = ContByte THEN <<"<U+FFFD>">> \o toString(Tail(data))
    ELSE <<Head(data)>> \o toString(Tail(data))

(***************************************************************************)
(* JavaScript values that can arrive as tool arguments.                    *)
(***************************************************************************)
Undefined == [t |-> "undefined", s |-> << >>, n |-> 0]
Num(k) == [t |-> "number", s |-> << >>, n |-> k]
Str(x) == [t |-> "string", s |-> x, n |-> 0]
Bool(b) == [t |-> "boolean", s |-> << >>, n |-> IF b THEN 1 ELSE 0]

TypeOf(v) == v.t

\* ToBoolean: undefined, 0, false and "" are falsy
Truthy(v) ==
    CASE v.t = "undefined" -> FALSE
      [] v.t = "string" -> v.s # << >>
      [] OTHER -> v.n # 0

(***************************************************************************)
(* Paths and the filesystem.  "/" is the separator atom; "." and ".." are  *)
(* atoms of their own.                                                     *)
(***************************************************************************)
Sep == "/"

\* os.homedir()
homedir == <<"/", "home", "/", "u">>

\* process.cwd() of the server
ProcessCwd == <<"/", "srv">>

\* Paths that exist; "/srv/f.txt" is a regular file, the others directories.
BasePaths ==
    { <<"/">>, <<"/", "home">>, homedir, ProcessCwd,
      <<"/", "srv", "/", "proj">>, <<"/", "srv", "/", "f.txt">>, <<"/", "tmp">> }

\* the existing paths that are regular files
RegularFiles == { <<"/", "srv", "/", "f.txt">> }

\* fs.existsSync
existsSync(p) == p \in fs

\* path.isAbsolute
isAbsolute(p) == p # << >> /\ Head(p) = Sep

\* the segments of a path: the runs of atoms between separators
RECURSIVE SplitPath(_, _, _)
SplitPath(p, cur, acc) ==
    IF p = << >> THEN Append(acc, cur)
    ELSE IF Head(p) = Sep THEN SplitPath(Tail(p), << >>, Append(acc, cur))
    ELSE SplitPath(Tail(p), Append(cur, Head(p)), acc)

\* normalizeString of node:path: drops "" and ".", ".." removes the segment
\* before it and is dropped at the root
RECURSIVE NormalizeSegments(_, _)
NormalizeSegments(segs, stack) ==
    IF segs = << >> THEN stack
    ELSE LET g == Head(segs) IN
        CASE g = << >> \/ g = <<".">> -> NormalizeSegments(Tail(segs), stack)
          [] g = <<"..">> ->
                NormalizeSegments(Tail(segs),
                    IF stack = << >> THEN << >> ELSE SubSeq(stack, 1, Len(stack) - 1))
          [] OTHER -> NormalizeSegments(Tail(segs), Append(stack, g))

RECURSIVE JoinSegments(_)
JoinSegments(stack) ==
    IF stack = << >> THEN << >>
    ELSE <<Sep>> \o Head(stack) \o JoinSegments(Tail(stack))

\* path.resolve with one argument
pathResolve(p) ==
    LET full == IF isAbsolute(p) THEN p ELSE ProcessCwd \o <<Sep>> \o p
        joined == JoinSegments(NormalizeSegments(SplitPath(full, << >>, << >>), << >>))
    IN IF joined = << >> THEN <<Sep>> ELSE joined

(***************************************************************************)
(* McpError and the result of a function that may throw.                   *)
(***************************************************************************)
Returned(v) == [threw |-> FALSE, code |-> "", message |-> << >>, value |-> v]
Thrown(c, m) == [threw |-> TRUE, code |-> c, message |-> m, value |-> << >>]

WorkFolderEmptyMsg == <<"workFolder cannot be an empty string">>
WorkFolderMissingMsg == <<"Specified workFolder does not exist: ">>

\* resolveWorkFolder with the existence check left out
resolveWorkFolderNoExistsCheck(workFolder) ==
    IF TypeOf(workFolder) = "string" /\ Trim(workFolder.s) = << >>
    THEN Thrown("InvalidParams", WorkFolderEmptyMsg)
    ELSE IF Truthy(workFolder) /\ TypeOf(workFolder) = "string"
    THEN Returned(pathResolve(workFolder.s))
    ELSE Returned(homedir)

\* resolveWorkFolder without the blank-string check
resolveWorkFolderNoBlankCheck(workFolder) ==
    IF Truthy(workFolder) /\ TypeOf(workFolder) = "string"
    THEN LET resolvedCwd == pathResolve(workFolder.s) IN
         IF existsSync(resolvedCwd) THEN Returned(resolvedCwd)
         ELSE Thrown("InvalidParams", WorkFolderMissingMsg \o resolvedCwd)
    ELSE Returned(homedir)

\* resolveWorkFolder whose default is the server's own working directory
resolveWorkFolderDefaultsToCwd(workFolder) ==
    IF TypeOf(workFolder) = "string" /\ Trim(workFolder.s) = << >>
    THEN Thrown("InvalidParams", WorkFolderEmptyMsg)
    ELSE IF Truthy(workFolder) /\ TypeOf(workFolder) = "string"
    THEN LET resolvedCwd == pathResolve(workFolder.s) IN
         IF existsSync(resolvedCwd) THEN Returned(resolvedCwd)
         ELSE Thrown("InvalidParams", WorkFolderMissingMsg \o resolvedCwd)
    ELSE Returned(ProcessCwd)

resolveWorkFolder(workFolder) ==
    IF TypeOf(workFolder) = "string" /\ Trim(workFolder.s) = << >>
    THEN Thrown("InvalidParams", WorkFolderEmptyMsg)
    ELSE IF Truthy(workFolder) /\ TypeOf(workFolder) = "string"
    THEN LET resolvedCwd == pathResolve(workFolder.s) IN
         IF existsSync(resolvedCwd) THEN Returned(resolvedCwd)
         ELSE Thrown("InvalidParams", WorkFolderMissingMsg \o resolvedCwd)
    ELSE Returned(homedir)

(***************************************************************************)
(* JSON.parse.  A parsed value is a record of one shape: t is the kind,    *)
(* s the text of a string or number, n is 1 for true, f the members of an  *)
(* object in source order.                                                 *)
(***************************************************************************)
Quote == "\""
Digits == {"0", "5", "7", "123"}

JV(t, s, n, f) == [t |-> t, s |-> s, n |-> n, f |-> f]
JNull == JV("null", << >>, 0, << >>)

POk(v, i) == [ok |-> TRUE, v |-> v, i |-> i]
PFail == [ok |-> FALSE, v |-> JNull, i |-> 0]

AtomAt(s, i) == IF i >= 1 /\ i <= Len(s) THEN s[i] ELSE "<end>"

RECURSIVE SkipWs(_, _)
SkipWs(s, i) == IF AtomAt(s, i) \in WhiteSpace THEN SkipWs(s, i + 1) ELSE i

\* index of the quote closing a string literal whose content starts at i;
\* 0 when it is unterminated or holds a raw control character
RECURSIVE StringEnd(_, _)
StringEnd(s, i) ==
    LET a == AtomAt(s, i) IN
    CASE a = Quote -> i
      [] a \in {"<end>", "\n", "\t"} -> 0
      [] OTHER -> StringEnd(s, i + 1)

RECURSIVE DigitsEnd(_, _)
DigitsEnd(s, i) == IF AtomAt(s, i) \in Digits THEN DigitsEnd(s, i + 1) ELSE i

RECURSIVE ParseValue(_, _)
RECURSIVE ParseElements(_, _)
RECURSIVE ParseMembers(_, _, _)

ParseValue(s, i0) ==
    LET i == SkipWs(s, i0)
        a == AtomAt(s, i)
    IN CASE a = Quote ->
                LET j == StringEnd(s, i + 1) IN
                IF j = 0 THEN PFail
                ELSE POk(JV("string", SubSeq(s, i + 1, j - 1), 0, << >>), j + 1)
         [] a \in {"true", "false"} ->
                POk(JV("boolean", << >>, IF a = "true" THEN 1 ELSE 0, << >>), i + 1)
         [] a = "null" -> POk(JNull, i + 1)
         [] a \in Digits ->
                LET j == DigitsEnd(s, i) IN
                IF a = "0" /\ j > i + 1 THEN PFail
                ELSE POk(JV("number", SubSeq(s, i, j - 1), 0, << >>), j)
         [] a = "[" ->
                LET k == SkipWs(s, i + 1) IN
                IF AtomAt(s, k) = "]" THEN POk(JV("array", << >>, 0, << >>), k + 1)
                ELSE ParseElements(s, i + 1)
         [] a = "{" ->
                LET k == SkipWs(s, i + 1) IN
                IF AtomAt(s, k) = "}" THEN POk(JV("object", << >>, 0, << >>), k + 1)
                ELSE ParseMembers(s, i + 1, << >>)
         [] OTHER -> PFail

ParseElements(s, i) ==
    LET e == ParseValue(s, i) IN
    IF ~e.ok THEN PFail
    ELSE LET k == SkipWs(s, e.i) IN
         CASE AtomAt(s, k) = "," -> ParseElements(s, k + 1)
           [] AtomAt(s, k) = "]" -> POk(JV("array", << >>, 0, << >>), k + 1)
           [] OTHER -> PFail

ParseMembers(s, i, acc) ==
    LET k == SkipWs(s, i)
        j == IF AtomAt(s, k) = Quote THEN StringEnd(s, k + 1) ELSE 0
        c == SkipWs(s, j + 1)
    IN IF j = 0 \/ AtomAt(s, c) # ":" THEN PFail
       ELSE LET e == ParseValue(s, c + 1) IN
            IF ~e.ok THEN PFail
            ELSE LET m == Append(acc, [key |-> SubSeq(s, k + 1, j - 1), val |-> e.v])
                     z == SkipWs(s, e.i)
                 IN CASE AtomAt(s, z) = "," -> ParseMembers(s, z + 1, m)
                      [] AtomAt(s, z) = "}" -> POk(JV("object", << >>, 0, m), z + 1)
                      [] OTHER -> PFail

\* JSON.parse: threw is TRUE for a SyntaxError
JSONParse(s) ==
    LET r == ParseValue(s, 1) IN
    IF r.ok /\ SkipWs(s, r.i) = Len(s) + 1
    THEN [threw |-> FALSE, v |-> r.v]
    ELSE [threw |-> TRUE, v |-> JNull]

\* typeof of a parsed value
JTypeOf(v) == IF v.t \in {"null", "array", "object"} THEN "object" ELSE v.t

JUndefined == JV("undefined", << >>, 0, << >>)

\* v[key]: the last member named key of an object, undefined otherwise
GetProp(v, key) ==
    LET hits == {x \in 1 .. Len(v.f) : v.f[x].key = key} IN
    IF v.t # "object" \/ hits = {} THEN JUndefined
    ELSE v.f[CHOOSE x \in hits : \A y \in hits : y <= x].val

(***************************************************************************)
(* parseClaudeOutput and buildResponse.                                    *)
(***************************************************************************)
Fallback(stdoutText) ==
    [resultText |-> stdoutText, sessionId |-> Undefined, isError |-> Undefined]

\* parseClaudeOutput that never reports a session identifier
parseClaudeOutputNoSession(stdoutText) ==
    LET parsed == JSONParse(stdoutText) IN
    IF parsed.threw \/ parsed.v.t = "null" THEN Fallback(stdoutText)
    ELSE LET result == GetProp(parsed.v, <<"result">>)
             err == GetProp(parsed.v, <<"is_error">>)
         IN IF JTypeOf(result) # "string" THEN Fallback(stdoutText)
            ELSE [resultText |-> result.s,
                  sessionId |-> Undefined,
                  isError |-> IF JTypeOf(err) = "boolean" THEN Bool(err.n = 1) ELSE Undefined]

\* parseClaudeOutput whose fallback returns the trimmed output
parseClaudeOutputTrimmed(stdoutText) ==
    LET parsed == JSONParse(stdoutText) IN
    IF parsed.threw \/ parsed.v.t = "null" THEN Fallback(Trim(stdoutText))
    ELSE LET result == GetProp(parsed.v, <<"result">>)
             sid == GetProp(parsed.v, <<"session_id">>)
             err == GetProp(parsed.v, <<"is_error">>)
         IN IF JTypeOf(result) # "string" THEN Fallback(Trim(stdoutText))
            ELSE [resultText |-> result.s,
                  sessionId |-> IF JTypeOf(sid) = "string" THEN Str(sid.s) ELSE Undefined,
                  isError |-> IF JTypeOf(err) = "boolean" THEN Bool(err.n = 1) ELSE Undefined]

\* parseClaudeOutput whose fallback for a record without a string result
\* keeps the record's session_id and is_error
parseClaudeOutputFallbackKeeps(stdoutText) ==
    LET parsed == JSONParse(stdoutText) IN
    IF parsed.threw \/ parsed.v.t = "null" THEN Fallback(stdoutText)
    ELSE LET result == GetProp(parsed.v, <<"result">>)
             sid == GetProp(parsed.v, <<"session_id">>)
             err == GetProp(parsed.v, <<"is_error">>)
         IN [resultText |-> IF JTypeOf(result) = "string" THEN result.s ELSE stdoutText,
             sessionId |-> IF JTypeOf(sid) = "string" THEN Str(sid.s) ELSE Undefined,
             isError |-> IF JTypeOf(err) = "boolean" THEN Bool(err.n = 1) ELSE Undefined]

\* A SyntaxError of JSON.parse and the TypeError of reading null.result are
\* both caught and give the raw-text fallback.
parseClaudeOutput(stdoutText) ==
    LET parsed == JSONParse(stdoutText) IN
    IF parsed.threw \/ parsed.v.t = "null" THEN Fallback(stdoutText)
    ELSE LET result == GetProp(parsed.v, <<"result">>)
             sid == GetProp(parsed.v, <<"session_id">>)
             err == GetProp(parsed.v, <<"is_error">>)
         IN IF JTypeOf(result) # "string" THEN Fallback(stdoutText)
            ELSE [resultText |-> result.s,
                  sessionId |-> IF JTypeOf(sid) = "string" THEN Str(sid.s) ELSE Undefined,
                  isError |-> IF JTypeOf(err) = "boolean" THEN Bool(err.n = 1) ELSE Undefined]

\* The try block of parseClaudeOutput on its own: JSON.parse throws a
\* SyntaxError, reading a property of null throws a TypeError, and any other
\* parsed value has its result, session_id and is_error read.
parseClaudeOutputTryBlock(stdoutText) ==
    LET parsed == JSONParse(stdoutText) IN
    IF parsed.threw THEN Thrown("SyntaxError", <<"Unexpected token">>)
    ELSE IF parsed.v.t = "null"
    THEN Thrown("TypeError", <<"Cannot read properties of null (reading 'result')">>)
    ELSE LET result == GetProp(parsed.v, <<"result">>)
             sid == GetProp(parsed.v, <<"session_id">>)
             err == GetProp(parsed.v, <<"is_error">>)
         IN IF JTypeOf(result) # "string" THEN Returned(Fallback(stdoutText))
            ELSE Returned(
                    [resultText |-> result.s,
                     sessionId |-> IF JTypeOf(sid) = "string" THEN Str(sid.s) ELSE Undefined,
                     isError |-> IF JTypeOf(err) = "boolean" THEN Bool(err.n = 1)
                                 ELSE Undefined])

\* What a call is answered with: nothing yet, a result, or an McpError.
NoAnswer ==
    [kind |-> "none", code |-> "", message |-> << >>, text |-> << >>,
     isError |-> FALSE, structured |-> FALSE, threadId |-> << >>, content |-> << >>]

ErrorAnswer(c, m) == [NoAnswer EXCEPT !.kind = "error", !.code = c, !.message = m]

\* buildResponse that trims the session identifier
buildResponseTrimsThread(resultText, sessionId, isError) ==
    [kind |-> "result", code |-> "", message |-> << >>,
     text |-> resultText,
     isError |-> IF isError.t = "undefined" THEN FALSE ELSE isError.n = 1,
     structured |-> Truthy(sessionId),
     threadId |-> IF Truthy(sessionId) THEN Trim(sessionId.s) ELSE << >>,
     content |-> IF Truthy(sessionId) THEN resultText ELSE << >>]

\* buildResponse that drops the isError argument
buildResponseIgnoresFlag(resultText, sessionId, isError) ==
    [kind |-> "result", code |-> "", message |-> << >>,
     text |-> resultText,
     isError |-> FALSE,
     structured |-> Truthy(sessionId),
     threadId |-> IF Truthy(sessionId) THEN sessionId.s ELSE << >>,
     content |-> IF Truthy(sessionId) THEN resultText ELSE << >>]

\* buildResponse adding the extension for every string session identifier
buildResponseAnyString(resultText, sessionId, isError) ==
    [kind |-> "result", code |-> "", message |-> << >>,
     text |-> resultText,
     isError |-> IF isError.t = "undefined" THEN FALSE ELSE isError.n = 1,
     structured |-> TypeOf(sessionId) = "string",
     threadId |-> IF TypeOf(sessionId) = "string" THEN sessionId.s ELSE << >>,
     content |-> IF TypeOf(sessionId) = "string" THEN resultText ELSE << >>]

buildResponse(resultText, sessionId, isError) ==
    [kind |-> "result", code |-> "", message |-> << >>,
     text |-> resultText,
     isError |-> IF isError.t = "undefined" THEN FALSE ELSE isError.n = 1,
     structured |-> Truthy(sessionId),
     threadId |-> IF Truthy(sessionId) THEN sessionId.s ELSE << >>,
     content |-> IF Truthy(sessionId) THEN resultText ELSE << >>]

(***************************************************************************)
(* The catch block of the tool handler.  An Error is a record; the empty   *)
(* string stands for a property that is not set.                           *)
(***************************************************************************)
executionTimeoutMs == 1800000

ErrorObj(m) == [message |-> m, stderr |-> << >>, stdout |-> << >>, signal |-> << >>, code |-> << >>]

NotFoundNote ==
    <<"\n", "Claude CLI not found. Ensure it is installed and in your PATH, or set CLAUDE_CLI_NAME.">>

TimedOutPrefix ==
    <<"Claude CLI command timed out after", " ", ToString(executionTimeoutMs \div 1000), "s", ". Details:", " ">>

FailedPrefix == <<"Claude CLI execution failed:", " ">>

\* the catch block answering with the invalid-params code
CatchErrorInvalidParams(error) ==
    ErrorAnswer("InvalidParams", FailedPrefix \o error.message)

CatchError(error) ==
    LET m0 == IF error.message # << >> THEN error.message ELSE <<"Unknown error">>
        m1 == IF error.stderr # << >> THEN m0 \o <<"\n", "Stderr:", " ">> \o error.stderr ELSE m0
        m2 == IF error.stdout # << >> THEN m1 \o <<"\n", "Stdout:", " ">> \o error.stdout ELSE m1
        errorMessage == IF Includes(error.message, <<"ENOENT">>) THEN m2 \o NotFoundNote ELSE m2
    IN IF \/ error.signal = <<"SIGTERM">>
          \/ Includes(error.message, <<"ETIMEDOUT">>)
          \/ error.code = <<"ETIMEDOUT">>
       THEN ErrorAnswer("InternalError", TimedOutPrefix \o errorMessage)
       ELSE ErrorAnswer("InternalError", FailedPrefix \o errorMessage)

(***************************************************************************)
(* findClaudeCli, run once by the constructor.                             *)
(***************************************************************************)
LocalClaudePath ==
    homedir \o <<Sep, ".claude", Sep, "local", Sep, "claude">>

\* findClaudeCli that never looks for the local installation
findClaudeCliNoLocal(customCliName) ==
    IF Truthy(customCliName) /\ isAbsolute(customCliName.s)
    THEN Returned(customCliName.s)
    ELSE IF /\ Truthy(customCliName)
            /\ \/ StartsWith(customCliName.s, <<".", Sep>>)
               \/ StartsWith(customCliName.s, <<"..", Sep>>)
               \/ Includes(customCliName.s, <<Sep>>)
    THEN Thrown("Error", <<"Invalid CLAUDE_CLI_NAME: Relative paths are not allowed.">>)
    ELSE Returned(IF Truthy(customCliName) THEN customCliName.s ELSE <<"claude">>)

\* findClaudeCli that lets a relative path through as a command name
findClaudeCliNoRelativeCheck(customCliName) ==
    IF Truthy(customCliName) /\ isAbsolute(customCliName.s)
    THEN Returned(customCliName.s)
    ELSE LET cliName == IF Truthy(customCliName) THEN customCliName.s ELSE <<"claude">> IN
         IF existsSync(LocalClaudePath) THEN Returned(LocalClaudePath)
         ELSE Returned(cliName)

findClaudeCli(customCliName) ==
    IF Truthy(customCliName) /\ isAbsolute(customCliName.s)
    THEN Returned(customCliName.s)
    ELSE IF /\ Truthy(customCliName)
            /\ \/ StartsWith(customCliName.s, <<".", Sep>>)
               \/ StartsWith(customCliName.s, <<"..", Sep>>)
               \/ Includes(customCliName.s, <<Sep>>)
    THEN Thrown("Error", <<"Invalid CLAUDE_CLI_NAME: Relative paths are not allowed.">>)
    ELSE LET cliName == IF Truthy(customCliName) THEN customCliName.s ELSE <<"claude">> IN
         IF existsSync(LocalClaudePath) THEN Returned(LocalClaudePath)
         ELSE Returned(cliName)

(***************************************************************************)
(* The CallToolRequest handler up to its await.                            *)
(***************************************************************************)
NoCall ==
    [name |-> "", hasArgs |-> FALSE, prompt |-> Undefined, threadId |-> Undefined,
     workFolder |-> Undefined]

ToolNames == {"claude_code", "claude_code_reply"}

ThreadIdMsg == <<"Missing or invalid required parameter: threadId">>
ReplyPromptMsg == <<"Missing or invalid required parameter: prompt">>
PromptMsg ==
    <<"Missing or invalid required parameter: prompt (must be an object with a string \"prompt\" property) for claude_code tool">>

FixedFlags ==
    << <<"--dangerously-skip-permissions">>, <<"-p">>, <<"--output-format">>, <<"json">> >>

\* argument vector that shell-quotes the prompt
claudeProcessArgsQuoted(prompt) ==
    FixedFlags \o << <<Quote>> \o prompt \o <<Quote>> >>

\* claudeProcessArgs of claude_code
claudeProcessArgs(prompt) == FixedFlags \o <<prompt>>

\* argument vector of a reply with the prompt before the resume flag
claudeProcessArgsReplySwapped(threadId, prompt) ==
    FixedFlags \o << prompt, <<"--resume">>, threadId >>

\* claudeProcessArgs of claude_code_reply
claudeProcessArgsReply(threadId, prompt) ==
    FixedFlags \o << <<"--resume">>, threadId, prompt >>

Throw(c, m) == [kind |-> "throw", code |-> c, message |-> m, args |-> << >>, cwd |-> << >>]
Invoke(a, d) == [kind |-> "spawn", code |-> "", message |-> << >>, args |-> a, cwd |-> d]

\* validation of claude_code_reply
ValidateReply(call) ==
    IF ~Truthy(call.threadId) \/ TypeOf(call.threadId) # "string"
    THEN Thrown("InvalidParams", ThreadIdMsg)
    ELSE IF ~Truthy(call.prompt) \/ TypeOf(call.prompt) # "string"
    THEN Thrown("InvalidParams", ReplyPromptMsg)
    ELSE Returned(call.prompt.s)

\* validation of claude_code that lets a non-string prompt through
ValidateFreshAny(call) ==
    IF call.hasArgs /\ TypeOf(call.prompt) # "undefined"
    THEN Returned(call.prompt.s)
    ELSE Thrown("InvalidParams", PromptMsg)

\* validation of claude_code
ValidateFresh(call) ==
    IF call.hasArgs /\ TypeOf(call.prompt) = "string"
    THEN Returned(call.prompt.s)
    ELSE Thrown("InvalidParams", PromptMsg)

\* the handler passing the work folder to spawn() as it was given
HandlerSyncRawFolder(call) ==
    LET v == IF call.name = "claude_code_reply" THEN ValidateReply(call) ELSE ValidateFresh(call)
        w == resolveWorkFolder(call.workFolder)
        cwd == IF TypeOf(call.workFolder) = "string" THEN call.workFolder.s ELSE w.value
    IN IF v.threw THEN Throw(v.code, v.message)
       ELSE IF w.threw THEN Throw(w.code, w.message)
       ELSE IF call.name = "claude_code_reply"
       THEN Invoke(claudeProcessArgsReply(call.threadId.s, v.value), cwd)
       ELSE Invoke(claudeProcessArgs(v.value), cwd)

\* the handler resolving the work folder before it validates the fields
HandlerSyncFolderFirst(call) ==
    LET v == IF call.name = "claude_code_reply" THEN ValidateReply(call) ELSE ValidateFresh(call)
        w == resolveWorkFolder(call.workFolder)
    IN IF w.threw THEN Throw(w.code, w.message)
       ELSE IF v.threw THEN Throw(v.code, v.message)
       ELSE IF call.name = "claude_code_reply"
       THEN Invoke(claudeProcessArgsReply(call.threadId.s, v.value), w.value)
       ELSE Invoke(claudeProcessArgs(v.value), w.value)

\* The synchronous part of the handler after the tool-name check: either it
\* throws an McpError or it reaches spawnAsync with an argument vector and cwd.
HandlerSync(call) ==
    LET v == IF call.name = "claude_code_reply" THEN ValidateReply(call) ELSE ValidateFresh(call)
        w == resolveWorkFolder(call.workFolder)
    IN IF v.threw THEN Throw(v.code, v.message)
       ELSE IF w.threw THEN Throw(w.code, w.message)
       ELSE IF call.name = "claude_code_reply"
       THEN Invoke(claudeProcessArgsReply(call.threadId.s, v.value), w.value)
       ELSE Invoke(claudeProcessArgs(v.value), w.value)

(***************************************************************************)
(* spawnAsync: the promise, its closure and the child's event handlers.    *)
(***************************************************************************)
\* an exit code as the 'close' event carries it: a number, or null
Code(n) == [isNull |-> FALSE, n |-> n]
NullCode == [isNull |-> TRUE, n |-> 0]

NoSpawn == [command |-> << >>, args |-> << >>, shell |-> FALSE, timeout |-> 0, cwd |-> << >>]

NoPromise == [state |-> "none", by |-> "", stdout |-> << >>, stderr |-> << >>, message |-> << >>]

\* out and err are the chunks the child is still going to write, wrote and
\* wroteErr the bytes it has written to its own pipes so far
NoChild ==
    [status |-> "none", out |-> << >>, err |-> << >>, wrote |-> << >>,
     wroteErr |-> << >>, timerFired |-> FALSE, killed |-> FALSE, events |-> << >>,
     code |-> NullCode]
CodeStr(c) == IF c.isNull THEN "null" ELSE ToString(c.n)

\* the continuation with a parseClaudeOutput that has no catch clause: what it
\* throws reaches the catch block of the handler
OnFulfilledParseThrows(value) ==
    LET t == parseClaudeOutputTryBlock(value.stdout) IN
    IF t.threw THEN CatchError(ErrorObj(t.message))
    ELSE buildResponse(t.value.resultText, t.value.sessionId, t.value.isError)

\* the continuation failing the call when the child printed nothing
OnFulfilledEmptyFails(value) ==
    IF value.stdout = << >> THEN CatchError(ErrorObj(<<"empty output">>))
    ELSE LET p == parseClaudeOutput(value.stdout) IN
         buildResponse(p.resultText, p.sessionId, p.isError)

\* The continuation of the handler after `await spawnAsync(...)`.
OnFulfilled(value) ==
    LET p == parseClaudeOutput(value.stdout) IN
    buildResponse(p.resultText, p.sessionId, p.isError)

OnRejected(error) == CatchError(error)

\* resolve() whose awaiting handler answers only after every earlier call
\* has been answered
ResolveInOrder(r, by, value) ==
    /\ settleCalls' = [settleCalls EXCEPT ![r] = @ + 1]
    /\ IF promise[r].state = "pending"
       THEN /\ promise' = [promise EXCEPT ![r] =
                    [state |-> "fulfilled", by |-> by, stdout |-> value.stdout,
                     stderr |-> value.stderr, message |-> << >>]]
            /\ IF \A q \in DOMAIN request : q < r => answer[q] # NoAnswer
               THEN answer' = [answer EXCEPT ![r] = OnFulfilled(value)]
               ELSE UNCHANGED answer
       ELSE UNCHANGED <<promise, answer>>

\* resolve({stdout, stderr}): takes effect only on a pending promise; the
\* awaiting handler then runs to its end before any other event is handled
Resolve(r, by, value) ==
    /\ settleCalls' = [settleCalls EXCEPT ![r] = @ + 1]
    /\ IF promise[r].state = "pending"
       THEN /\ promise' = [promise EXCEPT ![r] =
                    [state |-> "fulfilled", by |-> by, stdout |-> value.stdout,
                     stderr |-> value.stderr, message |-> << >>]]
            /\ answer' = [answer EXCEPT ![r] = OnFulfilled(value)]
       ELSE UNCHANGED <<promise, answer>>

\* reject(new Error(message))
Reject(r, by, message) ==
    /\ settleCalls' = [settleCalls EXCEPT ![r] = @ + 1]
    /\ IF promise[r].state = "pending"
       THEN /\ promise' = [promise EXCEPT ![r] =
                    [state |-> "rejected", by |-> by, stdout |-> << >>,
                     stderr |-> << >>, message |-> message]]
            /\ answer' = [answer EXCEPT ![r] = OnRejected(ErrorObj(message))]
       ELSE UNCHANGED <<promise, answer>>

\* the message of the 'error' handler without the path and the system call
SpawnErrorMessageBare(r, error) ==
    <<"Spawn error:", " ">> \o error.message
        \o <<"\n", "Stderr:", " ">> \o Trim(stderr[r])

SpawnErrorMessage(r, error) ==
    <<"Spawn error:", " ">> \o error.message
        \o (IF error.path # << >> THEN <<" | Path:", " ">> \o error.path ELSE << >>)
        \o (IF error.syscall # << >> THEN <<" | Syscall:", " ">> \o error.syscall ELSE << >>)
        \o <<"\n", "Stderr:", " ">> \o Trim(stderr[r])

CloseErrorMessage(r, code) ==
    <<"Command failed with exit code", " ", CodeStr(code)>>
        \o <<"\n", "Stderr:", " ">> \o Trim(stderr[r])
        \o <<"\n", "Stdout:", " ">> \o Trim(stdout[r])

\* process.on('error', ...)
OnError(r, error) ==
    IF settled[r] THEN UNCHANGED <<settled, settleCalls, promise, answer>>
    ELSE /\ settled' = [settled EXCEPT ![r] = TRUE]
         /\ Reject(r, "error", SpawnErrorMessage(r, error))

\* the 'close' handler without the settled guard
OnCloseNoGuard(r, code) ==
    /\ settled' = [settled EXCEPT ![r] = TRUE]
    /\ IF ~code.isNull /\ code.n = 0
       THEN Resolve(r, "close", [stdout |-> stdout[r], stderr |-> stderr[r]])
       ELSE Reject(r, "close", CloseErrorMessage(r, code))

\* the 'close' handler resolving whatever the exit code is
OnCloseIgnoreCode(r, code) ==
    IF settled[r] THEN UNCHANGED <<settled, settleCalls, promise, answer>>
    ELSE /\ settled' = [settled EXCEPT ![r] = TRUE]
         /\ Resolve(r, "close", [stdout |-> stdout[r], stderr |-> stderr[r]])

\* process.on('close', ...)
OnClose(r, code) ==
    IF settled[r] THEN UNCHANGED <<settled, settleCalls, promise, answer>>
    ELSE /\ settled' = [settled EXCEPT ![r] = TRUE]
         /\ IF ~code.isNull /\ code.n = 0
            THEN Resolve(r, "close", [stdout |-> stdout[r], stderr |-> stderr[r]])
            ELSE Reject(r, "close", CloseErrorMessage(r, code))

\* spawnAsync calling spawn() twice
spawnAsyncTwice(r, command, args, options, script, found) ==
    /\ spawnCount' = [spawnCount EXCEPT ![r] = @ + 2]
    /\ spawnOpts' = [spawnOpts EXCEPT ![r] =
            [command |-> command, args |-> args, shell |-> FALSE,
             timeout |-> options.timeout, cwd |-> options.cwd]]
    /\ stdout' = [stdout EXCEPT ![r] = << >>]
    /\ stderr' = [stderr EXCEPT ![r] = << >>]
    /\ settled' = [settled EXCEPT ![r] = FALSE]
    /\ promise' = [promise EXCEPT ![r] = [NoPromise EXCEPT !.state = "pending"]]
    /\ child' = [child EXCEPT ![r] =
            [NoChild EXCEPT !.status = IF found THEN "running" ELSE "failed",
                            !.out = script.out, !.err = script.err]]

\* spawnAsync up to the return of the promise.  `script` is what the child
\* is going to write; `found` is whether the executable could be started.
spawnAsync(r, command, args, options, script, found) ==
    /\ spawnCount' = [spawnCount EXCEPT ![r] = @ + 1]
    /\ spawnOpts' = [spawnOpts EXCEPT ![r] =
            [command |-> command, args |-> args, shell |-> FALSE,
             timeout |-> options.timeout, cwd |-> options.cwd]]
    /\ stdout' = [stdout EXCEPT ![r] = << >>]
    /\ stderr' = [stderr EXCEPT ![r] = << >>]
    /\ settled' = [settled EXCEPT ![r] = FALSE]
    /\ promise' = [promise EXCEPT ![r] = [NoPromise EXCEPT !.state = "pending"]]
    /\ child' = [child EXCEPT ![r] =
            [NoChild EXCEPT !.status = IF found THEN "running" ELSE "failed",
                            !.out = script.out, !.err = script.err]]

(***************************************************************************)
(* Actions.                                                                *)
(***************************************************************************)
\* the command resolved again from the environment at each call
CliCommandResolved == findClaudeCli(env).value

\* this.claudeCliPath as the handler passes it to spawnAsync
CliCommand == claudeCliPath

\* the handler printing the banner on every call of a recognized tool
CallToolBannerEachTime(r, call, script, found) ==
    /\ started = "yes"
    /\ request[r] = NoCall
    /\ \A q \in DOMAIN request : q < r => request[q] # NoCall
    /\ request' = [request EXCEPT ![r] = call]
    /\ UNCHANGED <<fs, env, started, claudeCliPath>>
    /\ IF call.name \notin ToolNames
       THEN /\ answer' = [answer EXCEPT ![r] =
                    ErrorAnswer("MethodNotFound", <<"Tool", " ", call.name, " ", "not found">>)]
            /\ UNCHANGED <<isFirstToolUse, bannerCount, spawnCount, spawnOpts, stdout,
                           stderr, settled, settleCalls, promise, child>>
       ELSE /\ isFirstToolUse' = FALSE
            /\ bannerCount' = bannerCount + 1
            /\ LET h == HandlerSync(call) IN
               IF h.kind = "throw"
               THEN /\ answer' = [answer EXCEPT ![r] = ErrorAnswer(h.code, h.message)]
                    /\ UNCHANGED <<spawnCount, spawnOpts, stdout, stderr, settled,
                                   settleCalls, promise, child>>
               ELSE /\ spawnAsync(r, CliCommand, h.args,
                            [timeout |-> executionTimeoutMs, cwd |-> h.cwd], script, found)
                    /\ UNCHANGED <<answer, settleCalls>>

\* the handler checking the tool name after the first-use block and the
\* validation of the arguments
CallToolNameCheckedLast(r, call, script, found) ==
    /\ started = "yes"
    /\ request[r] = NoCall
    /\ \A q \in DOMAIN request : q < r => request[q] # NoCall
    /\ request' = [request EXCEPT ![r] = call]
    /\ UNCHANGED <<fs, env, started, claudeCliPath>>
    /\ isFirstToolUse' = FALSE
    /\ bannerCount' = IF isFirstToolUse THEN bannerCount + 1 ELSE bannerCount
    /\ LET h == HandlerSync(call) IN
       IF h.kind = "throw"
       THEN /\ answer' = [answer EXCEPT ![r] = ErrorAnswer(h.code, h.message)]
            /\ UNCHANGED <<spawnCount, spawnOpts, stdout, stderr, settled,
                           settleCalls, promise, child>>
       ELSE IF call.name \notin ToolNames
       THEN /\ answer' = [answer EXCEPT ![r] =
                    ErrorAnswer("MethodNotFound", <<"Tool", " ", call.name, " ", "not found">>)]
            /\ UNCHANGED <<spawnCount, spawnOpts, stdout, stderr, settled, settleCalls,
                           promise, child>>
       ELSE /\ spawnAsync(r, CliCommand, h.args,
                    [timeout |-> executionTimeoutMs, cwd |-> h.cwd], script, found)
            /\ UNCHANGED <<answer, settleCalls>>

\* A tool call arrives in slot r and the handler runs up to its await.
CallTool(r, call, script, found) ==
    /\ started = "yes"
    /\ request[r] = NoCall
    /\ \A q \in DOMAIN request : q < r => request[q] # NoCall
    /\ request' = [request EXCEPT ![r] = call]
    /\ UNCHANGED <<fs, env, started, claudeCliPath>>
    /\ IF call.name \notin ToolNames
       THEN /\ answer' = [answer EXCEPT ![r] =
                    ErrorAnswer("MethodNotFound", <<"Tool", " ", call.name, " ", "not found">>)]
            /\ UNCHANGED <<isFirstToolUse, bannerCount, spawnCount, spawnOpts, stdout,
                           stderr, settled, settleCalls, promise, child>>
       ELSE /\ isFirstToolUse' = FALSE
            /\ bannerCount' = IF isFirstToolUse THEN bannerCount + 1 ELSE bannerCount
            /\ LET h == HandlerSync(call) IN
               IF h.kind = "throw"
               THEN /\ answer' = [answer EXCEPT ![r] = ErrorAnswer(h.code, h.message)]
                    /\ UNCHANGED <<spawnCount, spawnOpts, stdout, stderr, settled,
                                   settleCalls, promise, child>>
               ELSE /\ spawnAsync(r, CliCommand, h.args,
                            [timeout |-> executionTimeoutMs, cwd |-> h.cwd], script, found)
                    /\ UNCHANGED <<answer, settleCalls>>

\* the 'data' handler appending to one buffer that all requests share
ChildStdoutShared(r) ==
    /\ child[r].status = "running"
    /\ child[r].out # << >>
    /\ stdout' = [q \in DOMAIN stdout |-> stdout[q] \o toString(Head(child[r].out))]
    /\ child' = [child EXCEPT ![r].out = Tail(@), ![r].wrote = @ \o Head(child[r].out)]
    /\ UNCHANGED <<fs, env, started, claudeCliPath, isFirstToolUse, bannerCount, request, answer,
                   spawnCount, spawnOpts, stderr, settled, settleCalls, promise>>

\* process.stdout.on('data', ...): the child's next chunk arrives
ChildStdout(r) ==
    /\ child[r].status = "running"
    /\ child[r].out # << >>
    /\ stdout' = [stdout EXCEPT ![r] = @ \o toString(Head(child[r].out))]
    /\ child' = [child EXCEPT ![r].out = Tail(@), ![r].wrote = @ \o Head(child[r].out)]
    /\ UNCHANGED <<fs, env, started, claudeCliPath, isFirstToolUse, bannerCount, request, answer,
                   spawnCount, spawnOpts, stderr, settled, settleCalls, promise>>

\* process.stderr.on('data', ...)
ChildStderr(r) ==
    /\ child[r].status = "running"
    /\ child[r].err # << >>
    /\ stderr' = [stderr EXCEPT ![r] = @ \o toString(Head(child[r].err))]
    /\ child' = [child EXCEPT ![r].err = Tail(@),
                              ![r].wroteErr = @ \o Head(child[r].err)]
    /\ UNCHANGED <<fs, env, started, claudeCliPath, isFirstToolUse, bannerCount, request, answer,
                   spawnCount, spawnOpts, stdout, settled, settleCalls, promise>>

\* The executable could not be started: the runtime emits 'error' (ENOENT).
ChildSpawnError(r) ==
    /\ child[r].status = "failed"
    /\ child[r].events = << >>
    /\ child' = [child EXCEPT ![r].events = Append(@, "error")]
    /\ OnError(r, [message |-> <<"spawn", " ">> \o spawnOpts[r].command \o <<" ", "ENOENT">>,
                   path |-> spawnOpts[r].command,
                   syscall |-> <<"spawn", " ">> \o spawnOpts[r].command])
    /\ UNCHANGED <<fs, env, started, claudeCliPath, isFirstToolUse, bannerCount, request, spawnCount,
                   spawnOpts, stdout, stderr>>

\* The timer of spawn()'s timeout option fires while the child is running and
\* SIGTERM is sent; when kill() fails the runtime emits 'error' instead.
TimeoutFire(r, killOk) ==
    /\ child[r].status = "running"
    /\ spawnOpts[r].timeout > 0
    /\ ~child[r].timerFired
    /\ child' = [child EXCEPT ![r].timerFired = TRUE, ![r].killed = killOk,
                              ![r].events = IF killOk THEN @ ELSE Append(@, "error")]
    /\ IF killOk THEN UNCHANGED <<settled, settleCalls, promise, answer>>
       ELSE OnError(r, [message |-> <<"kill", " ", "EPERM">>, path |-> << >>,
                        syscall |-> <<"kill">>])
    /\ UNCHANGED <<fs, env, started, claudeCliPath, isFirstToolUse, bannerCount, request, spawnCount,
                   spawnOpts, stdout, stderr>>

\* exit codes a child chooses
ExitCodes == {Code(0), Code(1)}

\* The child has ended and its streams are closed: 'close' is emitted.  A
\* child that could not be started closes with the negated errno; a child
\* killed by the timeout's SIGTERM closes with a null code.
ChildClose(r, code) ==
    /\ \/ child[r].status = "running" /\ code \in ExitCodes
       \/ child[r].status = "running" /\ child[r].killed /\ code = NullCode
       \/ child[r].status = "failed" /\ child[r].events # << >> /\ code = Code(-2)
    /\ child' = [child EXCEPT ![r].status = "closed", ![r].events = Append(@, "close"),
                              ![r].code = code]
    /\ OnClose(r, code)
    /\ UNCHANGED <<fs, env, started, claudeCliPath, isFirstToolUse, bannerCount, request, spawnCount,
                   spawnOpts, stdout, stderr>>

(***************************************************************************)
(* Inputs: tool calls, and what a child process writes.                    *)
(***************************************************************************)
Prompts ==
    { Undefined, Num(123), Str(<< >>), Str(<<"--resume">>),
      Str(<<" ", "fix", " ", "$(rm -rf ~)", Quote, "\n">>) }

ThreadIds == { Undefined, Num(7), Str(<< >>), Str(<<"abc123">>), Str(<<" ", "--resume", " ">>) }

WorkFolders ==
    { Undefined, Num(123), Str(<< >>), Str(<<" ", "\t">>),
      Str(<<"/", "tmp">>), Str(<<"/", "nope">>), Str(<<"proj">>),
      Str(<<"..", "/", "srv", "/", ".", "/", "nope", "/">>),
      Str(<<"/", "srv", "/", "f.txt">>) }

\* every call: both tools with every combination of fields, a call without
\* an arguments object, and a call of a tool that does not exist
Calls ==
    [name : {"claude_code_reply"}, hasArgs : {TRUE}, prompt : Prompts,
     threadId : ThreadIds, workFolder : WorkFolders]
    \cup [name : {"claude_code"}, hasArgs : {TRUE}, prompt : Prompts,
          threadId : {Undefined}, workFolder : WorkFolders]
    \cup [name : ToolNames \cup {"other_tool"}, hasArgs : {FALSE}, prompt : {Undefined},
          threadId : {Undefined}, workFolder : {Undefined}]
    \cup [name : {"other_tool"}, hasArgs : {TRUE}, prompt : {Str(<<"--resume">>)},
          threadId : {Undefined}, workFolder : {Str(<< >>), Str(<<"/", "tmp">>)}]

\* two accepted calls, one of each tool
RunCalls ==
    { [name |-> "claude_code", hasArgs |-> TRUE, prompt |-> Str(<<"--resume">>),
       threadId |-> Undefined, workFolder |-> Undefined],
      [name |-> "claude_code_reply", hasArgs |-> TRUE, prompt |-> Str(<<"fix">>),
       threadId |-> Str(<<"abc123">>), workFolder |-> Str(<<"proj">>)] }

Q(x) == <<Quote>> \o x \o <<Quote>>
Member(k, v) == Q(<<k>>) \o <<":">> \o v

\* {"result":"ok","session_id":"abc123"}
OutSession ==
    <<"{">> \o Member("result", Q(<<"ok">>)) \o <<",", " ">>
        \o Member("session_id", Q(<<"abc123">>)) \o <<"}", "\n">>

\* {"result":" all done ","session_id":"","is_error":false}
OutEmptySession ==
    <<"{">> \o Member("result", Q(<<" ", "all done", " ">>)) \o <<",">>
        \o Member("session_id", Q(<< >>)) \o <<",">>
        \o Member("is_error", <<"false">>) \o <<"}">>

\* {"is_error":true,"session_id":7,"result":""}
OutNumberSession ==
    <<"{">> \o Member("is_error", <<"true">>) \o <<",">>
        \o Member("session_id", <<"7">>) \o <<",">>
        \o Member("result", Q(<< >>)) \o <<"}">>

\* {"session_id":"abc123","result":5}
OutNoResult ==
    <<"{">> \o Member("session_id", Q(<<"abc123">>)) \o <<",">>
        \o Member("result", <<"5">>) \o <<"}">>

\* what a child writes to stdout, in chunks
StdoutScripts ==
    { << >>,
      <<OutSession>>,
      <<SubSeq(OutSession, 1, 7), SubSeq(OutSession, 8, Len(OutSession))>>,
      <<OutEmptySession>>,
      <<OutNumberSession>>,
      <<OutNoResult>>,
      << <<"done", "\n">> >>,
      << <<"null">> >>,
      << <<"[", "5", "]">> >> }

\* what a child writes to stderr, in chunks
StderrScripts ==
    { << >>, << <<"boom">> >>, << <<"\t", "boom", " ", "ETIMEDOUT", "\n">> >>,
      << <<" ">>, <<" ", "warn">> >> }

QuietScript == [out |-> << >>, err |-> << >>]

RunScripts ==
    [out : StdoutScripts, err : {<< >>}]
    \cup [out : {<< >>, <<OutSession>>}, err : StderrScripts]

(***************************************************************************)
(* The server after construction, and its specifications.                  *)
(***************************************************************************)
\* no tool call has arrived in any of the slots
NoRequests(slots) ==
    /\ isFirstToolUse = TRUE
    /\ bannerCount = 0
    /\ request = [r \in slots |-> NoCall]
    /\ answer = [r \in slots |-> NoAnswer]
    /\ spawnCount = [r \in slots |-> 0]
    /\ spawnOpts = [r \in slots |-> NoSpawn]
    /\ stdout = [r \in slots |-> << >>]
    /\ stderr = [r \in slots |-> << >>]
    /\ settled = [r \in slots |-> FALSE]
    /\ settleCalls = [r \in slots |-> 0]
    /\ promise = [r \in slots |-> NoPromise]
    /\ child = [r \in slots |-> NoChild]

InitWith(paths, names) ==
    /\ fs \in paths
    /\ env \in names
    /\ ~findClaudeCli(env).threw
    /\ started = "yes"
    /\ claudeCliPath = findClaudeCli(env).value
    /\ NoRequests(Req)

Init == InitWith({BasePaths}, {Undefined})

\* an accepted call whose executable starts
CallStarts == \E r \in Req, c \in RunCalls, s \in RunScripts : CallTool(r, c, s, TRUE)

\* an accepted call whose executable cannot be started
CallFailsToStart == \E r \in Req, c \in RunCalls : CallTool(r, c, QuietScript, FALSE)

StdoutData == \E r \in Req : ChildStdout(r)
StderrData == \E r \in Req : ChildStderr(r)
SpawnError == \E r \in Req : ChildSpawnError(r)
Timeout == \E r \in Req : TimeoutFire(r, TRUE)
Close == \E r \in Req, code \in ExitCodes \cup {NullCode, Code(-2)} : ChildClose(r, code)

Next ==
    \/ CallStarts
    \/ CallFailsToStart
    \/ StdoutData
    \/ StderrData
    \/ SpawnError
    \/ Timeout
    \/ Close

\* accepted calls, with every behaviour of the child
Spec == Init /\ [][Next]_vars

\* the timeout's kill() fails and the runtime emits 'error' for a running child
KillFails == \E r \in Req : TimeoutFire(r, FALSE)

\* children that write in two chunks to stdout, to stderr, or to both
EventScripts ==
    { [out |-> <<SubSeq(OutSession, 1, 7), SubSeq(OutSession, 8, Len(OutSession))>>,
       err |-> << >>],
      [out |-> << >>, err |-> << <<" ">>, <<" ", "warn">> >>],
      [out |-> << <<"null">> >>, err |-> << <<"boom">> >>] }

EventCallStarts ==
    \E r \in Req, c \in RunCalls, s \in EventScripts : CallTool(r, c, s, TRUE)

NextEvents ==
    \/ EventCallStarts
    \/ CallFailsToStart
    \/ StdoutData
    \/ StderrData
    \/ SpawnError
    \/ Timeout
    \/ Close
    \/ KillFails

\* every order of a child's data, 'error' and 'close' events, an 'error'
\* between the data events of a running child included
SpecEvents == Init /\ [][NextEvents]_vars

\* any call at all, with a child that writes nothing
AnyCall == \E r \in Req, c \in Calls : CallTool(r, c, QuietScript, TRUE)

NextV ==
    \/ AnyCall
    \/ Close

\* every call, valid or not, with a child that only exits
SpecV == Init /\ [][NextV]_vars

(***************************************************************************)
(* Children that exit after printing records with and without is_error.    *)
(***************************************************************************)
\* {"result":"ok","is_error":"true"}
OutStringFlag ==
    <<"{">> \o Member("result", Q(<<"ok">>)) \o <<",">>
        \o Member("is_error", Q(<<"true">>)) \o <<"}">>

\* {"result":"ok","is_error":null}
OutNullFlag ==
    <<"{">> \o Member("result", Q(<<"ok">>)) \o <<",">>
        \o Member("is_error", <<"null">>) \o <<"}">>

\* {"is_error":true}
OutFlagOnly == <<"{">> \o Member("is_error", <<"true">>) \o <<"}">>

FlagScripts ==
    { <<OutSession>>,
      <<OutEmptySession>>,
      <<OutNumberSession>>,
      <<SubSeq(OutNumberSession, 1, 5), SubSeq(OutNumberSession, 6, Len(OutNumberSession))>>,
      <<OutStringFlag>>,
      <<OutNullFlag>>,
      <<OutFlagOnly>>,
      << <<"true">> >>,
      << <<"done">>, <<"\n">> >> }

FlaggedCallStarts ==
    \E r \in Req, c \in RunCalls, out \in FlagScripts :
        CallTool(r, c, [out |-> out, err |-> << >>], TRUE)

NextFlags ==
    \/ FlaggedCallStarts
    \/ StdoutData
    \/ Close

\* accepted calls whose children print and exit
SpecFlags == Init /\ [][NextFlags]_vars

(***************************************************************************)
(* Children that print one text of every kind and exit: the inputs of      *)
(* parseClaudeOutput.                                                      *)
(***************************************************************************)
\* {"result":null}
OutNullResult == <<"{">> \o Member("result", <<"null">>) \o <<"}">>

\* {"result":{"result":"ok"},"session_id":"abc123","is_error":true}
OutNestedResult ==
    <<"{">> \o Member("result", <<"{">> \o Member("result", Q(<<"ok">>)) \o <<"}">>)
        \o <<",">> \o Member("session_id", Q(<<"abc123">>))
        \o <<",">> \o Member("is_error", <<"true">>) \o <<"}">>

\* {"result":5,"result":"ok"}
OutTwoResults ==
    <<"{">> \o Member("result", <<"5">>) \o <<",">>
        \o Member("result", Q(<<"ok">>)) \o <<"}">>

\* {"result":"ok"   (cut short)
OutCutShort == <<"{">> \o Member("result", Q(<<"ok">>))

\* the empty string, blanks, null, a number, a string, a boolean, arrays,
\* objects with and without a string result, and text that is not JSON
ParseTexts ==
    { << >>, <<" ", "\n">>, <<"null">>, <<" ", "null", "\n">>, <<"5">>, Q(<<"ok">>),
      <<"true">>, <<"[", "]">>, <<"[", "5", ",", "null", "]">>, <<"{", "}">>,
      OutNullResult, OutNestedResult, OutTwoResults, OutNoResult, OutFlagOnly,
      OutSession, OutEmptySession, OutCutShort, <<"done", "\n">>, <<"0", "5">> }

\* a child that prints the text in one chunk, or nothing for the empty text
ParseScript(text) ==
    [out |-> IF text = << >> THEN << >> ELSE <<text>>, err |-> << >>]

ParsedCallStarts ==
    \E r \in Req, c \in RunCalls, text \in ParseTexts :
        CallTool(r, c, ParseScript(text), TRUE)

NextParse ==
    \/ ParsedCallStarts
    \/ StdoutData
    \/ Close

\* accepted calls whose children print one text and exit
SpecParse == Init /\ [][NextParse]_vars

(***************************************************************************)
(* Progress.  spawn() is given the timeout and sends SIGTERM once when it  *)
(* expires; spawnAsync has no timer of its own and settles only in its     *)
(* 'error' and 'close' handlers.                                           *)
(***************************************************************************)
\* The timeout expires and SIGTERM is sent, but the child handles or ignores
\* the signal, or a descendant keeps its pipes open: no event is emitted.
TermIgnored(r) ==
    /\ child[r].status = "running"
    /\ spawnOpts[r].timeout > 0
    /\ ~child[r].timerFired
    /\ child' = [child EXCEPT ![r].timerFired = TRUE]
    /\ UNCHANGED <<fs, env, started, claudeCliPath, isFirstToolUse, bannerCount, request,
                   answer, spawnCount, spawnOpts, stdout, stderr, settled, settleCalls,
                   promise>>

TimeoutIgnored == \E r \in Req : TermIgnored(r)

\* a child terminated by the signal closes with a null code
KilledCloses == \E r \in Req : ChildClose(r, NullCode)

\* the timer of a running child expires
TimerExpires == Timeout \/ TimeoutIgnored

NextProgress ==
    \/ EventCallStarts
    \/ CallFailsToStart
    \/ StdoutData
    \/ StderrData
    \/ SpawnError
    \/ Timeout
    \/ TimeoutIgnored
    \/ Close

\* The runtime delivers what has happened: the 'error' of a failed start,
\* the expiry of the timer, the 'close' of a child the signal terminated.
\* Nothing makes a child that survives the signal exit.
SpecProgress ==
    /\ Init
    /\ [][NextProgress]_vars
    /\ WF_vars(SpawnError)
    /\ WF_vars(TimerExpires)
    /\ WF_vars(KilledCloses)

(***************************************************************************)
(* Calls that fail at each step of the handler and calls that reach their  *)
(* child, with children of every behaviour.                                *)
(***************************************************************************)
CallOf(name, prompt, threadId, workFolder) ==
    [name |-> name, hasArgs |-> TRUE, prompt |-> prompt, threadId |-> threadId,
     workFolder |-> workFolder]

\* an unknown tool; invalid required fields with a valid and with an invalid
\* work folder; valid required fields with a blank and with a missing work
\* folder; and the two accepted calls
StepCalls ==
    RunCalls \cup
    { CallOf("other_tool", Str(<<"--resume">>), Undefined, Str(<<"/", "tmp">>)),
      CallOf("claude_code", Num(123), Undefined, Str(<<"/", "tmp">>)),
      CallOf("claude_code", Undefined, Undefined, Str(<<"/", "nope">>)),
      CallOf("claude_code_reply", Str(<<"fix">>), Str(<< >>), Str(<<" ", "\t">>)),
      CallOf("claude_code_reply", Num(123), Num(7), Undefined),
      CallOf("claude_code_reply", Str(<< >>), Undefined, Str(<<"/", "nope">>)),
      CallOf("claude_code_reply", Str(<< >>), Str(<<"abc123">>), Str(<< >>)),
      CallOf("claude_code", Str(<< >>), Undefined, Str(<<" ", "\t">>)),
      CallOf("claude_code_reply", Str(<<"fix">>), Str(<<"abc123">>), Str(<<"/", "nope">>)) }

StepScripts ==
    { QuietScript,
      [out |-> <<OutSession>>, err |-> << >>],
      [out |-> << <<"null">> >>, err |-> << >>],
      [out |-> <<OutNoResult>>, err |-> << >>],
      [out |-> << <<"done", "\n">> >>, err |-> << <<"boom">> >>] }

StepCallStarts ==
    \E r \in Req, c \in StepCalls, s \in StepScripts : CallTool(r, c, s, TRUE)

StepCallFailsToStart ==
    \E r \in Req, c \in StepCalls : CallTool(r, c, QuietScript, FALSE)

NextSteps ==
    \/ StepCallStarts
    \/ StepCallFailsToStart
    \/ StdoutData
    \/ StderrData
    \/ SpawnError
    \/ Timeout
    \/ KillFails
    \/ Close

\* calls of every fate, from arrival to answer
SpecSteps == Init /\ [][NextSteps]_vars

(***************************************************************************)
(* Startup: the constructor runs findClaudeCli once; afterwards the        *)
(* environment variable and the local installation may change.             *)
(***************************************************************************)
\* values of CLAUDE_CLI_NAME: unset, empty, a bare name, an absolute path
\* that does not exist, and relative paths
CliNames ==
    { Undefined, Str(<< >>), Str(<<"claude-dev">>),
      Str(<<"/", "opt", "/", "claude">>),
      Str(<<".", "/", "claude">>), Str(<<"..", "/", "claude">>),
      Str(<<"bin", "/", "claude">>) }

\* the filesystem without and with the local installation
StartPaths == { BasePaths, BasePaths \cup {LocalClaudePath} }

InitStart ==
    /\ fs \in StartPaths
    /\ env \in CliNames
    /\ started = "no"
    /\ claudeCliPath = << >>
    /\ NoRequests(Req)

\* new ClaudeCodeServer(): a throw of findClaudeCli ends the process
Construct ==
    /\ started = "no"
    /\ LET resolved == findClaudeCli(env) IN
       IF resolved.threw
       THEN started' = "threw" /\ UNCHANGED claudeCliPath
       ELSE started' = "yes" /\ claudeCliPath' = resolved.value
    /\ UNCHANGED <<fs, env, isFirstToolUse, bannerCount, request, answer, spawnCount,
                   spawnOpts, stdout, stderr, settled, settleCalls, promise, child>>

\* CLAUDE_CLI_NAME is given another value while the server runs
SetEnv ==
    /\ started = "yes"
    /\ \E name \in CliNames : name # env /\ env' = name
    /\ UNCHANGED <<fs, started, claudeCliPath, isFirstToolUse, bannerCount, request,
                   answer, spawnCount, spawnOpts, stdout, stderr, settled, settleCalls,
                   promise, child>>

\* the local installation is installed or removed while the server runs
FsChange ==
    /\ started = "yes"
    /\ fs' = IF LocalClaudePath \in fs THEN fs \ {LocalClaudePath}
             ELSE fs \cup {LocalClaudePath}
    /\ UNCHANGED <<env, started, claudeCliPath, isFirstToolUse, bannerCount, request,
                   answer, spawnCount, spawnOpts, stdout, stderr, settled, settleCalls,
                   promise, child>>

\* an accepted call; the executable may or may not start
StartedCall ==
    \E r \in Req, c \in RunCalls, found \in BOOLEAN : CallTool(r, c, QuietScript, found)

NextStart ==
    \/ Construct
    \/ SetEnv
    \/ FsChange
    \/ StartedCall
    \/ SpawnError
    \/ Close

\* the server from before its construction, in a changing environment
SpecStart == InitStart /\ [][NextStart]_vars

(***************************************************************************)
(* Calls in flight together, and replies to the sessions they returned.    *)
(***************************************************************************)
\* {"result":"hi","session_id":" --resume "}
OutSpacedSession ==
    <<"{">> \o Member("result", Q(<<"hi">>)) \o <<",">>
        \o Member("session_id", Q(<<" ", "--resume", " ">>)) \o <<"}">>

ConcurrentScripts ==
    { [out |-> <<OutSession>>, err |-> << >>],
      [out |-> <<OutSpacedSession>>, err |-> << >>],
      [out |-> << <<"done", "\n">> >>, err |-> << <<"boom">> >>] }

FreshCall ==
    [name |-> "claude_code", hasArgs |-> TRUE, prompt |-> Str(<<"--resume">>),
     threadId |-> Undefined, workFolder |-> Undefined]

\* the reply a caller sends with a thread id it was given
ReplyTo(threadId) ==
    [name |-> "claude_code_reply", hasArgs |-> TRUE, prompt |-> Str(<<"fix">>),
     threadId |-> Str(threadId), workFolder |-> Undefined]

BadCall ==
    [name |-> "claude_code", hasArgs |-> TRUE, prompt |-> Num(123),
     threadId |-> Undefined, workFolder |-> Undefined]

InitConcurrent ==
    /\ fs = BasePaths
    /\ env = Undefined
    /\ started = "yes"
    /\ claudeCliPath = findClaudeCli(env).value
    /\ NoRequests(Slots)

FreshArrives ==
    \E r \in Slots, s \in ConcurrentScripts : CallTool(r, FreshCall, s, TRUE)

\* a caller resumes a session with the threadId of an earlier response
ReplyArrives ==
    \E r \in Slots, p \in Slots, s \in ConcurrentScripts :
        /\ answer[p].structured
        /\ CallTool(r, ReplyTo(answer[p].threadId), s, TRUE)

BadArrives == \E r \in Slots : CallTool(r, BadCall, QuietScript, TRUE)

\* a call whose executable cannot be started
UnstartedArrives == \E r \in Slots : CallTool(r, FreshCall, QuietScript, FALSE)

StdoutArrives == \E r \in Slots : ChildStdout(r)
StderrArrives == \E r \in Slots : ChildStderr(r)
ErrorArrives == \E r \in Slots : ChildSpawnError(r)
ChildExits == \E r \in Slots, code \in ExitCodes \cup {Code(-2)} : ChildClose(r, code)

NextConcurrent ==
    \/ FreshArrives
    \/ ReplyArrives
    \/ BadArrives
    \/ UnstartedArrives
    \/ StdoutArrives
    \/ StderrArrives
    \/ ErrorArrives
    \/ ChildExits

\* several calls in flight, their children's events in any order
SpecConcurrent == InitConcurrent /\ [][NextConcurrent]_vars

(***************************************************************************)
(* Calls of both tools, one after another, with work folders given in      *)
(* several forms.                                                          *)
(***************************************************************************)
FolderCalls ==
    LET forms == { Undefined, Str(<<"/", "tmp">>), Str(<<"proj">>),
                   Str(<<"..", "/", "srv", "/", ".", "/", "proj", "/">>),
                   Str(<<"/", "nope">>) }
    IN { CallOf("claude_code", Str(<<"--resume">>), Undefined, w) : w \in forms }
       \cup { CallOf("claude_code_reply", Str(<<"fix">>), Str(<<"abc123">>), w) : w \in forms }

NextFolders ==
    \/ \E r \in Slots, c \in FolderCalls : CallTool(r, c, QuietScript, TRUE)
    \/ ChildExits

\* calls with work folders, earlier ones running or ended when later arrive
SpecFolders == InitConcurrent /\ [][NextFolders]_vars

(***************************************************************************)
(* Children whose output reaches the data handlers cut into chunks at any  *)
(* byte, also between the bytes of one character.                          *)
(***************************************************************************)
\* {"result":"<C3><A9>"}, the bytes of a record whose result is one
\* two-byte character
OutAccented ==
    <<"{">> \o Member("result", <<Quote, LeadByte, ContByte, Quote>>) \o <<"}">>

ChunkScripts ==
    { [out |-> <<OutAccented>>, err |-> << >>],
      [out |-> <<SubSeq(OutAccented, 1, 7), SubSeq(OutAccented, 8, Len(OutAccented))>>,
       err |-> << >>],
      [out |-> <<SubSeq(OutSession, 1, 7), SubSeq(OutSession, 8, Len(OutSession))>>,
       err |-> << <<"boom", LeadByte>>, <<ContByte, "\n">> >>] }

NextChunks ==
    \/ \E r \in Req, c \in RunCalls, s \in ChunkScripts : CallTool(r, c, s, TRUE)
    \/ StdoutData
    \/ StderrData
    \/ KillFails
    \/ Close

\* accepted calls whose children write in chunks and exit
SpecChunks == Init /\ [][NextChunks]_vars

(***************************************************************************)
(* Sequences of calls of recognized and unrecognized tools, valid and not. *)
(***************************************************************************)
\* calls of a tool that does not exist, without arguments and with arguments
\* that no tool would accept; an invalid and a valid claude_code call; a
\* valid reply
SeqCalls ==
    { [NoCall EXCEPT !.name = "other_tool"],
      CallOf("other_tool", Num(123), Undefined, Str(<< >>)),
      CallOf("other_tool", Str(<<"--resume">>), Undefined, Str(<<"/", "tmp">>)),
      BadCall, FreshCall, ReplyTo(<<"abc123">>) }

NextSequence ==
    \/ \E r \in Slots, c \in SeqCalls, found \in BOOLEAN,
          s \in { QuietScript, [out |-> <<OutSession>>, err |-> << >>] } :
            CallTool(r, c, s, found)
    \/ StdoutArrives
    \/ ErrorArrives
    \/ ChildExits

\* calls one after another while earlier children run
SpecSequence == InitConcurrent /\ [][NextSequence]_vars

(***************************************************************************)
(* Properties.                                                             *)
(***************************************************************************)
Settled(r) == promise[r].state \in {"fulfilled", "rejected"}

Last(s) == s[Len(s)]

C1_State(r) ==
    LET ev == child[r].events IN
    /\ settleCalls[r] <= 1
    /\ IF ev = << >>
       THEN ~Settled(r) /\ settleCalls[r] = 0
       ELSE Settled(r) /\ settleCalls[r] = 1 /\ promise[r].by = Head(ev)

C1_Step ==
    \A r \in Req :
        Settled(r) =>
            /\ promise'[r] = promise[r]
            /\ answer'[r] = answer[r]
            /\ settleCalls'[r] = settleCalls[r]

\* C1: the promise of spawnAsync is settled at most once; the first 'error'
\* or 'close' event observed decides its outcome, and no later event calls
\* resolve or reject again or changes the outcome or the answer.
ExactlyOnceSettlement ==
    /\ [](\A r \in Req : C1_State(r))
    /\ [][C1_Step]_vars

\* C1 witness: 'error' arrived after output had, 'close' after it, and the
\* promise was settled once, by the 'error'.
ExactlyOnceSettlementWitness ==
    \E r \in Req :
        /\ child[r].events = <<"error", "close">>
        /\ stdout[r] # << >>
        /\ settleCalls[r] = 1
        /\ promise[r].by = "error"

TimedOutPhrase ==
    <<"Claude CLI command timed out after", " ", "1800", "s">>

\* C2: when the timeout elapses with the child still running, and the
\* child is terminated by the signal sent, the call (of either tool) fails
\* with an internal error whose message says 'timed out after 1800s'.
TimeoutReportedAsTimeout ==
    \A r \in Req :
        (/\ request[r].name \in ToolNames
         /\ child[r].killed
         /\ child[r].status = "closed"
         /\ child[r].code = NullCode)
        => (/\ answer[r].kind = "error"
            /\ answer[r].code = "InternalError"
            /\ Includes(answer[r].message, TimedOutPhrase))

IsString(v) == v.t = "string"

Blank(s) == \A i \in 1 .. Len(s) : s[i] \in WhiteSpace

\* the required fields of a call, as the tools' input schemas state them
InvalidRequired(c) ==
    \/ c.name = "claude_code" /\ ~IsString(c.prompt)
    \/ /\ c.name = "claude_code_reply"
       /\ \/ ~IsString(c.threadId)
          \/ c.threadId.s = << >>
          \/ ~IsString(c.prompt)

FailedWith(r, code) == answer[r].kind = "error" /\ answer[r].code = code

\* C3: a call whose required fields are missing, of the wrong type or (for
\* threadId) empty fails with invalid-params, and no child is ever spawned
\* for it.
NoSpawnOnInvalidRequired ==
    \A r \in Req :
        InvalidRequired(request[r]) =>
            /\ FailedWith(r, "InvalidParams")
            /\ spawnCount[r] = 0
            /\ child[r].status = "none"

\* C3 witness: a reply whose only fault is an empty threadId was answered
\* with an error.
NoSpawnOnInvalidRequiredWitness ==
    \E r \in Req :
        /\ request[r].name = "claude_code_reply"
        /\ request[r].threadId = Str(<< >>)
        /\ IsString(request[r].prompt) /\ request[r].prompt.s # << >>
        /\ request[r].workFolder = Str(<<"/", "tmp">>)
        /\ answer[r].kind = "error"

\* C4: a call of either tool whose workFolder is an empty or blank string
\* fails with invalid-params, no child is spawned, and the home directory
\* is not used.
BlankWorkFolderRejected ==
    \A r \in Req :
        (/\ request[r].name \in ToolNames
         /\ IsString(request[r].workFolder)
         /\ Blank(request[r].workFolder.s))
        => (/\ FailedWith(r, "InvalidParams")
            /\ spawnCount[r] = 0
            /\ spawnOpts[r].cwd # homedir)

\* C4 witness: a call with valid required fields and a blank workFolder
\* was rejected by resolveWorkFolder.
BlankWorkFolderRejectedWitness ==
    \E r \in Req :
        /\ ~InvalidRequired(request[r])
        /\ request[r].workFolder = Str(<<" ", "\t">>)
        /\ answer[r].message = WorkFolderEmptyMsg

MissingWorkFolder(c) ==
    /\ c.name \in ToolNames
    /\ IsString(c.workFolder)
    /\ ~Blank(c.workFolder.s)
    /\ pathResolve(c.workFolder.s) \notin fs

RejectedWithResolvedPath(r) ==
    /\ FailedWith(r, "InvalidParams")
    /\ Includes(answer[r].message, pathResolve(request[r].workFolder.s))
    /\ spawnCount[r] = 0

\* C5 as stated: every call whose non-blank workFolder resolves to a path
\* that does not exist fails with invalid-params naming the resolved path.
MissingWorkFolderNamesPath ==
    \A r \in Req : MissingWorkFolder(request[r]) => RejectedWithResolvedPath(r)

\* the required fields as the handler accepts them
ValidRequired(c) ==
    /\ IsString(c.prompt)
    /\ c.name = "claude_code_reply" =>
            /\ IsString(c.threadId) /\ c.threadId.s # << >>
            /\ c.prompt.s # << >>

\* C5 amended: every call that passes the validation of its required fields
\* and whose non-blank workFolder resolves to a path that does not exist
\* fails with invalid-params naming the resolved absolute path, and no child
\* is spawned.
ValidCallMissingWorkFolderNamesPath ==
    \A r \in Req :
        (ValidRequired(request[r]) /\ MissingWorkFolder(request[r]))
        => RejectedWithResolvedPath(r)

\* C5 witness: a relative workFolder with "..", "." and a trailing separator
\* was rejected with its resolved form /srv/nope in the message.
ValidCallMissingWorkFolderWitness ==
    \E r \in Req :
        /\ ValidRequired(request[r])
        /\ request[r].workFolder = Str(<<"..", "/", "srv", "/", ".", "/", "nope", "/">>)
        /\ answer[r].message = WorkFolderMissingMsg \o <<"/", "srv", "/", "nope">>

\* C6: the argument vector of every spawned child ends with the prompt of
\* the request, unchanged, and the child is launched without a shell.
PromptIsLastArgument ==
    \A r \in Req :
        spawnCount[r] > 0 =>
            /\ spawnOpts[r].args # << >>
            /\ Last(spawnOpts[r].args) = request[r].prompt.s
            /\ IsString(request[r].prompt)
            /\ spawnOpts[r].shell = FALSE

\* C6 witness: a child was spawned for a prompt holding blanks, a quote, a
\* newline and shell syntax.
PromptIsLastArgumentWitness ==
    \E r \in Req :
        /\ spawnCount[r] = 1
        /\ request[r].name = "claude_code"
        /\ request[r].prompt.s = <<" ", "fix", " ", "$(rm -rf ~)", Quote, "\n">>

ResumeFlag == <<"--resume">>

\* C7: a reply's argument vector is the fixed flags, then '--resume', then
\* the threadId unchanged, then the prompt; a claude_code vector has no
\* '--resume' before its last element.
ResumeFlagCarriesThreadId ==
    \A r \in Req :
        spawnCount[r] > 0 =>
            LET a == spawnOpts[r].args IN
            /\ SubSeq(a, 1, Len(FixedFlags)) = FixedFlags
            /\ request[r].name = "claude_code_reply" =>
                    /\ Len(a) = Len(FixedFlags) + 3
                    /\ a[Len(FixedFlags) + 1] = ResumeFlag
                    /\ a[Len(FixedFlags) + 2] = request[r].threadId.s
            /\ request[r].name = "claude_code" =>
                    \A i \in 1 .. (Len(a) - 1) : a[i] # ResumeFlag

\* C7 witness: a reply was spawned whose threadId has surrounding blanks,
\* and its prompt is itself '--resume'.
ResumeFlagCarriesThreadIdWitness ==
    \E r \in Req :
        /\ spawnCount[r] = 1
        /\ request[r].name = "claude_code_reply"
        /\ request[r].threadId.s = <<" ", "--resume", " ">>
        /\ request[r].prompt.s = <<"--resume">>

\* the child of r ran and exited by itself with code 0
ExitedZero(r) ==
    /\ child[r].status = "closed"
    /\ child[r].code = Code(0)
    /\ promise[r].by = "close"

\* the text is a JSON object whose result and session_id are strings
IsSessionRecord(text) ==
    LET parsed == JSONParse(text) IN
    /\ ~parsed.threw
    /\ parsed.v.t = "object"
    /\ GetProp(parsed.v, <<"result">>).t = "string"
    /\ GetProp(parsed.v, <<"session_id">>).t = "string"

ResultOf(text) == GetProp(JSONParse(text).v, <<"result">>).s
SessionOf(text) == GetProp(JSONParse(text).v, <<"session_id">>).s

Normalized(r) == parseClaudeOutput(stdout[r])

\* C8 as stated: exit code 0 and a record with string result and string
\* session_id give the normalized result {result, session_id}, a response
\* with the result as text and structuredContent.threadId = session_id.
SessionRecordGivesThreadId ==
    \A r \in Req :
        (ExitedZero(r) /\ IsSessionRecord(stdout[r])) =>
            /\ Normalized(r).resultText = ResultOf(stdout[r])
            /\ Normalized(r).sessionId = Str(SessionOf(stdout[r]))
            /\ answer[r].kind = "result"
            /\ answer[r].text = ResultOf(stdout[r])
            /\ answer[r].structured
            /\ answer[r].threadId = SessionOf(stdout[r])

\* C8 amended: exit code 0 and a record with string result and string
\* session_id give the normalized result {result, session_id} and a response
\* with the result as text; the response carries structuredContent.threadId
\* = session_id exactly when session_id is not the empty string.
NonEmptySessionGivesThreadId ==
    \A r \in Req :
        (ExitedZero(r) /\ IsSessionRecord(stdout[r])) =>
            /\ Normalized(r).resultText = ResultOf(stdout[r])
            /\ Normalized(r).sessionId = Str(SessionOf(stdout[r]))
            /\ answer[r].kind = "result"
            /\ answer[r].text = ResultOf(stdout[r])
            /\ answer[r].structured = (SessionOf(stdout[r]) # << >>)
            /\ answer[r].structured => answer[r].threadId = SessionOf(stdout[r])

\* C8 witness: the record arrived in two chunks, the child exited with 0
\* and the response carries threadId "abc123".
NonEmptySessionGivesThreadIdWitness ==
    \E r \in Req :
        /\ ExitedZero(r)
        /\ stdout[r] = OutSession
        /\ child[r].out = << >>
        /\ answer[r].text = <<"ok">>
        /\ answer[r].threadId = <<"abc123">>

\* the text is not a JSON object
NotARecord(text) == JSONParse(text).threw \/ JSONParse(text).v.t # "object"

\* C9: exit code 0 with stdout that is not a structured record still gives
\* a response, not an error: its text is the whole raw stdout and it has no
\* session identifier and no structuredContent.
UnstructuredOutputIsRawText ==
    \A r \in Req :
        (ExitedZero(r) /\ NotARecord(stdout[r])) =>
            /\ answer[r].kind = "result"
            /\ answer[r].text = stdout[r]
            /\ ~answer[r].structured
            /\ answer[r].threadId = << >>
            /\ Normalized(r).sessionId = Undefined

\* C9 witness: a child printed the plain text "done\n", exited with 0 and
\* the call was answered with a result.
UnstructuredOutputIsRawTextWitness ==
    \E r \in Req :
        /\ ExitedZero(r)
        /\ stdout[r] = <<"done", "\n">>
        /\ answer[r].kind = "result"

\* the child of r ran and exited by itself with a non-zero code
ExitedNonZero(r) ==
    /\ child[r].status = "closed"
    /\ ~child[r].code.isNull
    /\ child[r].code.n > 0

ExitCodePhrase(r) == <<"Command failed with exit code", " ", ToString(child[r].code.n)>>

\* C10 as stated: a non-zero exit code after the child wrote e to stderr
\* fails the call with an internal error whose message contains e and the
\* exit code.
NonZeroExitReportsStderr ==
    \A r \in Req :
        ExitedNonZero(r) =>
            /\ FailedWith(r, "InternalError")
            /\ Includes(answer[r].message, stderr[r])
            /\ Includes(answer[r].message, ExitCodePhrase(r))

\* C10 amended: a non-zero exit code after the child wrote e to stderr fails
\* the call with an internal error whose message contains e stripped of its
\* leading and trailing whitespace, and the exit code.
NonZeroExitReportsTrimmedStderr ==
    \A r \in Req :
        ExitedNonZero(r) =>
            /\ FailedWith(r, "InternalError")
            /\ Includes(answer[r].message, <<" ">> \o Trim(stderr[r]) \o <<"\n">>)
            /\ Includes(answer[r].message, ExitCodePhrase(r))

\* C10 witness: a child wrote "\tboom ETIMEDOUT\n" to stderr and exited
\* with code 1, and the call was answered with an error.
NonZeroExitReportsTrimmedStderrWitness ==
    \E r \in Req :
        /\ ExitedNonZero(r)
        /\ stderr[r] = <<"\t", "boom", " ", "ETIMEDOUT", "\n">>
        /\ answer[r].kind = "error"

WorkFolderResolves(c) ==
    \/ ~IsString(c.workFolder)
    \/ ~Blank(c.workFolder.s) /\ pathResolve(c.workFolder.s) \in fs

\* C12: any string prompt, the empty string included, passes validation for
\* both tools: a call with a string prompt, for a reply a non-empty string
\* threadId, and a work folder that resolves, spawns the child.
AnyStringPromptAccepted ==
    \A r \in Req :
        (/\ request[r].name \in ToolNames
         /\ request[r].hasArgs
         /\ IsString(request[r].prompt)
         /\ request[r].name = "claude_code_reply" =>
                IsString(request[r].threadId) /\ request[r].threadId.s # << >>
         /\ WorkFolderResolves(request[r]))
        => (/\ spawnCount[r] = 1
            /\ ~FailedWith(r, "InvalidParams"))

\* the text is a JSON object with a string result
IsResultRecord(text) ==
    LET parsed == JSONParse(text) IN
    /\ ~parsed.threw
    /\ parsed.v.t = "object"
    /\ GetProp(parsed.v, <<"result">>).t = "string"

\* the record's is_error member is the boolean true
FlagOf(text) ==
    LET flag == GetProp(JSONParse(text).v, <<"is_error">>) IN
    flag.t = "boolean" /\ flag.n = 1

\* C14: after exit code 0 the call is answered with a response, never an
\* error, and the response's isError is true exactly when stdout is a
\* structured record (an object with a string result) whose is_error is the
\* boolean true; without a boolean is_error, or with unstructured output,
\* isError is false.
ContentErrorFlagIndependent ==
    \A r \in Req :
        ExitedZero(r) =>
            /\ answer[r].kind = "result"
            /\ answer[r].isError = (IsResultRecord(stdout[r]) /\ FlagOf(stdout[r]))

\* C14 witness: a child printed {"is_error":true,"session_id":7,"result":""},
\* exited with code 0, and the response is flagged as an error.
ContentErrorFlagIndependentWitness ==
    \E r \in Req :
        /\ ExitedZero(r)
        /\ stdout[r] = OutNumberSession
        /\ answer[r].kind = "result"
        /\ answer[r].isError

\* the call passes validation and work-folder resolution
Accepted(c) ==
    /\ c.name \in ToolNames
    /\ c.hasArgs
    /\ ValidRequired(c)
    /\ WorkFolderResolves(c)

C15_State(r) ==
    /\ spawnCount[r] <= 1
    /\ Accepted(request[r]) => spawnCount[r] = 1
    /\ child[r].status = "closed" => answer[r] # NoAnswer

C15_Step ==
    \A r \in Req :
        /\ request[r] # NoCall => spawnCount'[r] = spawnCount[r]
        /\ answer[r] # NoAnswer => answer'[r] = answer[r]

\* C15: a call that passes validation and work-folder resolution spawns
\* exactly one child; once the call has arrived no later step spawns again,
\* whether the child fails, cannot be started or is timed out; and once the
\* call is answered the answer never changes.
OneChildOneAnswer ==
    /\ [](\A r \in Req : C15_State(r))
    /\ [][C15_Step]_vars

\* C15 witness: a child was killed by the timeout and closed, the call was
\* answered with an error, and spawn() had been called once.
OneChildOneAnswerWitness ==
    \E r \in Req :
        /\ child[r].killed
        /\ child[r].status = "closed"
        /\ answer[r].kind = "error"
        /\ spawnCount[r] = 1

\* the override is a non-empty string that is not absolute and contains a
\* separator (which a leading './' or '../' also does)
RelativeLooking(name) ==
    /\ IsString(name) /\ name.s # << >>
    /\ Head(name.s) # Sep
    /\ \/ \E i \in 1 .. Len(name.s) : name.s[i] = Sep
       \/ StartsWith(name.s, <<".", Sep>>)
       \/ StartsWith(name.s, <<"..", Sep>>)

AbsoluteOverride(name) == IsString(name) /\ name.s # << >> /\ Head(name.s) = Sep

Constructing == started = "no" /\ started' # "no"

C18_Step ==
    Constructing =>
        /\ AbsoluteOverride(env) => started' = "yes" /\ claudeCliPath' = env.s
        /\ RelativeLooking(env) => started' = "threw" /\ claudeCliPath' = << >>

\* C18: the constructor's resolution returns an absolute override verbatim,
\* whether or not the path exists, and fails on a relative-looking override;
\* after a failure there is no executable path and no child is ever spawned.
OverrideAbsoluteOrRejected ==
    /\ [][C18_Step]_vars
    /\ [](started = "threw" =>
            /\ claudeCliPath = << >>
            /\ \A r \in Req : spawnCount[r] = 0)

\* C18 witness: the override /opt/claude, which does not exist, became the
\* command of a spawned child.
OverrideAbsoluteOrRejectedWitness ==
    \E r \in Req :
        /\ started = "yes"
        /\ claudeCliPath = <<"/", "opt", "/", "claude">>
        /\ claudeCliPath \notin fs
        /\ spawnCount[r] = 1
        /\ spawnOpts[r].command = claudeCliPath

\* the override is a non-empty string without a separator
BareName(name) ==
    /\ IsString(name) /\ name.s # << >>
    /\ \A i \in 1 .. Len(name.s) : name.s[i] # Sep

\* C19: with a bare command name as override the resolved executable is
\* that name, whether or not the local installation exists.
BareNameOverrideUsed ==
    [][(Constructing /\ BareName(env)) =>
            (started' = "yes" /\ claudeCliPath' = env.s)]_vars

\* C20: the executable path set by the constructor never changes afterwards,
\* and every child spawned, for either tool, is launched with it, whatever
\* CLAUDE_CLI_NAME and the filesystem have become since.
ExecutablePathFixed ==
    /\ [][started = "yes" => (started' = "yes" /\ claudeCliPath' = claudeCliPath)]_vars
    /\ [](\A r \in Req : spawnCount[r] > 0 => spawnOpts[r].command = claudeCliPath)

\* C20 witness: a reply's child runs under the name resolved at startup,
\* "claude-dev", while CLAUDE_CLI_NAME is now unset and the local
\* installation exists, so that resolving now would give another path.
ExecutablePathFixedWitness ==
    \E r \in Req :
        /\ request[r].name = "claude_code_reply"
        /\ spawnCount[r] = 1
        /\ spawnOpts[r].command = <<"claude-dev">>
        /\ env = Undefined
        /\ LocalClaudePath \in fs
        /\ findClaudeCli(env).value # claudeCliPath

\* C13: a session identifier returned as structuredContent.threadId is the
\* one the child printed, and a later reply with that threadId is accepted
\* and passes exactly that identifier to its child after '--resume'.
SessionRoundTrip ==
    \A p \in Slots, r \in Slots :
        (/\ answer[p].structured
         /\ request[r].name = "claude_code_reply"
         /\ request[r].threadId = Str(answer[p].threadId))
        => (/\ answer[p].threadId = SessionOf(child[p].wrote)
            /\ spawnCount[r] = 1
            /\ Len(spawnOpts[r].args) = Len(FixedFlags) + 3
            /\ spawnOpts[r].args[Len(FixedFlags) + 1] = ResumeFlag
            /\ spawnOpts[r].args[Len(FixedFlags) + 2] = SessionOf(child[p].wrote))

\* C13 witness: a claude_code call returned the thread id " --resume " and
\* a later reply with it has spawned its child.
SessionRoundTripWitness ==
    \E p \in Slots, r \in Slots :
        /\ p < r
        /\ request[p].name = "claude_code"
        /\ answer[p].threadId = <<" ", "--resume", " ">>
        /\ request[r].name = "claude_code_reply"
        /\ request[r].threadId = Str(answer[p].threadId)
        /\ spawnCount[r] = 1

\* the message of a call whose own child closed with a code other than 0
OwnFailure(r) ==
    FailedPrefix \o <<"Command failed with exit code", " ", CodeStr(child[r].code)>>
        \o <<"\n", "Stderr:", " ">> \o Trim(child[r].wroteErr)
        \o <<"\n", "Stdout:", " ">> \o Trim(child[r].wrote)

\* the message of a call whose own child could not be started
OwnSpawnFailure(r) ==
    FailedPrefix \o <<"Spawn error:", " ", "spawn", " ">> \o spawnOpts[r].command
        \o <<" ", "ENOENT", " | Path:", " ">> \o spawnOpts[r].command
        \o <<" | Syscall:", " ", "spawn", " ">> \o spawnOpts[r].command
        \o <<"\n", "Stderr:", " ">> \o Trim(child[r].wroteErr) \o NotFoundNote

\* C16: with several calls in flight each call's buffers hold what its own
\* child wrote, its settled flag follows its own child's close, and its
\* response or error is what its own child's output and exit code give.
ConcurrentCallsIsolated ==
    \A r \in Slots :
        /\ stdout[r] = child[r].wrote
        /\ stderr[r] = child[r].wroteErr
        /\ settled[r] = (child[r].events # << >>)
        /\ answer[r].kind = "result" =>
                /\ child[r].code = Code(0)
                /\ answer[r] = OnFulfilled([stdout |-> child[r].wrote,
                                            stderr |-> child[r].wroteErr])
        /\ FailedWith(r, "InternalError") =>
                /\ child[r].code # Code(0)
                /\ Head(child[r].events) = "close" => answer[r].message = OwnFailure(r)
                /\ Head(child[r].events) = "error" =>
                        answer[r].message = OwnSpawnFailure(r)

\* C16 witness: two calls were in flight together; the later one has been
\* answered from its own child's record while the earlier one's child, which
\* has written "boom" to stderr, is still running.
ConcurrentCallsIsolatedWitness ==
    \E q \in Slots, r \in Slots :
        /\ q < r
        /\ child[q].status = "running"
        /\ stderr[q] = <<"boom">>
        /\ answer[q] = NoAnswer
        /\ answer[r].kind = "result"
        /\ answer[r].text = <<"ok">>

\* the call of r waits for the first 'error' or 'close' of its own child
Waiting(r) == child[r].status \in {"running", "failed"} /\ child[r].events = << >>

C17_State ==
    \A r \in Slots :
        /\ child[r].events # << >> => answer[r] # NoAnswer
        /\ (request[r] # NoCall /\ answer[r] = NoAnswer) => Waiting(r)

C17_Step ==
    \A r \in Slots :
        /\ (request[r] = NoCall /\ request'[r] # NoCall) =>
                /\ answer'[r] # NoAnswer \/ Waiting(r)'
                /\ \A q \in Slots \ {r} : answer'[q] = answer[q] /\ child'[q] = child[q]
        /\ (Waiting(r) /\ ~Waiting(r)') =>
                /\ answer'[r] # NoAnswer
                /\ \A q \in Slots \ {r} : answer'[q] = answer[q] /\ child'[q] = child[q]

\* C17: whatever other calls are waiting for their children, a call that
\* arrives is validated and rejected or given its child in that step, and
\* the call whose child emits its first 'error' or 'close' is answered in
\* that very step, whichever call arrived first; an unanswered call is
\* waiting for its own child only, and no step of one call touches another
\* call's child or answer.
ResponsiveWhilePending ==
    /\ []C17_State
    /\ [][C17_Step]_vars

\* C17 witness: a later call has been accepted and answered while an earlier
\* call's child is still running.
ResponsiveWhilePendingWitness ==
    \E q \in Slots, r \in Slots :
        /\ q < r
        /\ child[q].status = "running"
        /\ answer[q] = NoAnswer
        /\ answer[r].kind = "result"
        /\ child[r].status = "closed"
        /\ child[r].code = Code(0)

\* what parseClaudeOutput has to return for the text: the record's result
\* when the text is a JSON object with a string result, the text otherwise
ExpectedResultText(text) ==
    IF IsResultRecord(text) THEN ResultOf(text) ELSE text

\* a sequence of atoms, the model's form of a JavaScript string
IsText(x) == DOMAIN x = 1 .. Len(x) /\ \A i \in DOMAIN x : x[i] \in STRING

\* C21: parseClaudeOutput returns for every stdout text, whether the try
\* block ends normally, with a SyntaxError or with a TypeError; resultText
\* is a string, the record's result when that is a string and the whole raw
\* text otherwise; so after exit code 0 the call is always answered with a
\* response carrying that text.
ParseIsTotal ==
    \A r \in Req :
        ExitedZero(r) =>
            LET t == parseClaudeOutputTryBlock(stdout[r])
                p == parseClaudeOutput(stdout[r])
            IN /\ p = (IF t.threw THEN Fallback(stdout[r]) ELSE t.value)
               /\ IsText(p.resultText)
               /\ p.resultText = ExpectedResultText(stdout[r])
               /\ answer[r].kind = "result"
               /\ answer[r].text = ExpectedResultText(stdout[r])

\* C21 witness: a child printed null, for which reading .result throws, and
\* exited with code 0; the call was answered with the text null.
ParseIsTotalWitness ==
    \E r \in Req :
        /\ ExitedZero(r)
        /\ stdout[r] = <<"null">>
        /\ parseClaudeOutputTryBlock(stdout[r]).code = "TypeError"
        /\ answer[r].kind = "result"
        /\ answer[r].text = <<"null">>

\* C22: every call for which a child was spawned is eventually answered,
\* by the child's close, a spawn error or the expiry of the timeout.
EveryInvocationSettles ==
    \A r \in Req : (spawnCount[r] > 0) ~> (answer[r] # NoAnswer)

\* the child of r could not be started
SpawnFailed(r) == child[r].status \in {"failed", "closed"} /\ Head(child[r].events) = "error"

\* C23: a call that failed by an ordinary non-zero exit or a failed start,
\* its timer never having expired, is reported with the 'execution failed'
\* wording and not with 'timed out after 1800s', whatever the child wrote.
TimeoutPhraseOnlyOnTimeout ==
    \A r \in Req :
        (/\ answer[r].kind = "error"
         /\ ~child[r].timerFired
         /\ ExitedNonZero(r) \/ (child[r].events # << >> /\ SpawnFailed(r)))
        => (/\ StartsWith(answer[r].message, FailedPrefix)
            /\ ~Includes(answer[r].message, TimedOutPhrase))

ExitCodeWords == <<"Command failed with exit code">>

\* C24: a call whose executable could not be started fails with an internal
\* error whose message says 'Spawn error', names the path and the system
\* call, ends with the note that the CLI was not found, and has no exit
\* code, also after the 'close' that follows; the answer has no text and no
\* session identifier.  A call whose child ran and exited with a non-zero
\* code has the exit code and no 'Spawn error' at the start of its message.
SpawnFailureDistinguished ==
    \A r \in Req :
        /\ (child[r].events # << >> /\ SpawnFailed(r)) =>
                LET command == spawnOpts[r].command IN
                /\ FailedWith(r, "InternalError")
                /\ StartsWith(answer[r].message, FailedPrefix \o <<"Spawn error:", " ">>)
                /\ Includes(answer[r].message, <<" | Path:", " ">> \o command)
                /\ Includes(answer[r].message, <<" | Syscall:", " ", "spawn", " ">> \o command)
                /\ Includes(answer[r].message, <<"ENOENT">>)
                /\ SubSeq(answer[r].message, Len(answer[r].message) - 1,
                          Len(answer[r].message)) = NotFoundNote
                /\ ~Includes(answer[r].message, ExitCodeWords)
                /\ answer[r].text = << >>
                /\ ~answer[r].structured
                /\ answer[r].threadId = << >>
        /\ ExitedNonZero(r) =>
                /\ FailedWith(r, "InternalError")
                /\ StartsWith(answer[r].message, FailedPrefix \o ExitCodeWords)
                /\ ~Includes(answer[r].message, <<" | Syscall:", " ">>)

\* C24 witness: with CLAUDE_CLI_NAME a bare name that is not installed, the
\* child could not be started; 'error' and then 'close' were emitted and the
\* call was answered with an error.
SpawnFailureDistinguishedWitness ==
    \E r \in Req :
        /\ spawnOpts[r].command = <<"claude-dev">>
        /\ child[r].events = <<"error", "close">>
        /\ child[r].code = Code(-2)
        /\ answer[r].kind = "error"

\* C25: a call whose workFolder resolves to an existing path that is not a
\* directory fails with invalid-params, and no child is spawned with that
\* path as its working directory.
NonDirectoryWorkFolderRejected ==
    \A r \in Req :
        (/\ request[r].name \in ToolNames
         /\ IsString(request[r].workFolder)
         /\ ~Blank(request[r].workFolder.s)
         /\ pathResolve(request[r].workFolder.s) \in fs \cap RegularFiles)
        => (/\ FailedWith(r, "InvalidParams")
            /\ spawnCount[r] = 0
            /\ spawnOpts[r].cwd \notin RegularFiles)

\* C26: a call with valid required fields whose workFolder is absent or is
\* not a string is not rejected: its child is spawned with the home
\* directory as working directory.
HomeDirectoryByDefault ==
    \A r \in Req :
        (/\ request[r].name \in ToolNames
         /\ request[r].hasArgs
         /\ ValidRequired(request[r])
         /\ ~IsString(request[r].workFolder))
        => (/\ spawnCount[r] = 1
            /\ spawnOpts[r].cwd = homedir
            /\ ~FailedWith(r, "InvalidParams"))

\* C26 witness: a reply with the number 123 as workFolder has its child
\* running in the home directory.
HomeDirectoryByDefaultWitness ==
    \E r \in Req :
        /\ request[r].name = "claude_code_reply"
        /\ request[r].workFolder = Num(123)
        /\ spawnCount[r] = 1
        /\ child[r].status = "running"
        /\ spawnOpts[r].cwd = homedir

\* Where a call is, as far as states show it: Validating and
\* ResolvingWorkFolder pass within the step in which the call arrives, and
\* Interpreting within the step in which the promise is fulfilled.
Phase(r) ==
    CASE request[r] = NoCall -> "Idle"
      [] answer[r].kind = "error" -> "Failed"
      [] answer[r].kind = "result" -> "Responding"
      [] OTHER -> "Invoking"

\* the step of the handler in which a failed call failed
FailedIn(r) ==
    CASE promise[r].state = "fulfilled" -> "Interpreting"
      [] promise[r].state = "rejected" -> "Invoking"
      [] request[r].name \notin ToolNames \/ ~request[r].hasArgs
            \/ ~ValidRequired(request[r]) -> "Validating"
      [] OTHER -> "ResolvingWorkFolder"

C27_State(r) ==
    /\ Phase(r) = "Invoking" =>
            /\ Accepted(request[r])
            /\ spawnCount[r] = 1
            /\ promise[r].state = "pending"
    /\ Phase(r) = "Responding" =>
            /\ Accepted(request[r])
            /\ spawnCount[r] = 1
            /\ promise[r].state = "fulfilled"
            /\ answer[r] = buildResponse(Normalized(r).resultText, Normalized(r).sessionId,
                                         Normalized(r).isError)
    /\ Phase(r) = "Failed" =>
            /\ FailedIn(r) \in {"Validating", "ResolvingWorkFolder", "Invoking"}
            /\ FailedIn(r) = "Invoking" <=> spawnCount[r] = 1
            /\ FailedIn(r) = "ResolvingWorkFolder" => ~WorkFolderResolves(request[r])
    /\ ExitedZero(r) => Phase(r) = "Responding"

C27_Step ==
    \A r \in Req :
        /\ Phase(r) = "Idle" => Phase(r)' \in {"Idle", "Invoking", "Failed"}
        /\ Phase(r) = "Invoking" => Phase(r)' \in {"Invoking", "Responding", "Failed"}
        /\ Phase(r) = "Responding" => Phase(r)' = "Responding" /\ answer'[r] = answer[r]
        /\ Phase(r) = "Failed" => Phase(r)' = "Failed" /\ answer'[r] = answer[r]
        /\ request[r] # NoCall => request'[r] = request[r]

\* C27: a call is validated, then has its work folder resolved, then has
\* its child invoked, then has the output interpreted and is answered: a
\* child exists only for a call that passed validation and work-folder
\* resolution, a response only for a call whose promise was fulfilled, and
\* no call goes back or changes once answered.  A call fails in validation,
\* in work-folder resolution or in the invocation, never after its promise
\* was fulfilled; after exit code 0 it is answered with a result whatever
\* the child printed.
CallStateMachine ==
    /\ [](\A r \in Req : C27_State(r))
    /\ [][C27_Step]_vars

\* C27 witness: a child printed nothing and exited with code 0, and the
\* call has been answered with the empty text.
CallStateMachineWitness ==
    \E r \in Req :
        /\ ExitedZero(r)
        /\ stdout[r] = << >>
        /\ Phase(r) = "Responding"
        /\ answer[r].text = << >>

\* the work folder of the call is a string that resolveWorkFolder rejects
BadWorkFolder(c) ==
    IsString(c.workFolder) /\ (Blank(c.workFolder.s) \/ pathResolve(c.workFolder.s) \notin fs)

BadThreadId(c) == ~IsString(c.threadId) \/ c.threadId.s = << >>

\* C28: required fields are checked before the work folder and, for a
\* reply, threadId before prompt: a claude_code call without a string
\* prompt gets the prompt error and a reply with an invalid threadId the
\* threadId error, whatever their work folder and (for the reply) prompt
\* are; a reply with a valid threadId and a non-string prompt gets the
\* prompt error whatever its work folder is; a work-folder error is given
\* only to calls whose required fields are valid.
RequiredFieldsCheckedFirst ==
    \A r \in Req :
        LET c == request[r] IN
        (c.name \in ToolNames /\ c.hasArgs) =>
            /\ (c.name = "claude_code" /\ ~IsString(c.prompt)) =>
                    FailedWith(r, "InvalidParams") /\ answer[r].message = PromptMsg
            /\ (c.name = "claude_code_reply" /\ BadThreadId(c)) =>
                    FailedWith(r, "InvalidParams") /\ answer[r].message = ThreadIdMsg
            /\ (c.name = "claude_code_reply" /\ ~BadThreadId(c) /\ ~IsString(c.prompt)) =>
                    FailedWith(r, "InvalidParams") /\ answer[r].message = ReplyPromptMsg
            /\ (\/ answer[r].message = WorkFolderEmptyMsg
                \/ StartsWith(answer[r].message, WorkFolderMissingMsg)) =>
                    ValidRequired(c) /\ BadWorkFolder(c)

\* C28 witness: a reply whose threadId, prompt and work folder are all
\* invalid was answered with the threadId error.
RequiredFieldsCheckedFirstWitness ==
    \E r \in Req :
        /\ request[r].name = "claude_code_reply"
        /\ request[r].threadId = Num(7)
        /\ request[r].prompt = Num(123)
        /\ request[r].workFolder = Str(<<"/", "nope">>)
        /\ answer[r].message = ThreadIdMsg

\* the text is a JSON object whose result is missing or not a string
RecordWithoutResult(text) ==
    LET parsed == JSONParse(text) IN
    /\ ~parsed.threw
    /\ parsed.v.t = "object"
    /\ GetProp(parsed.v, <<"result">>).t # "string"

\* C29: when stdout is a JSON object whose result is missing or not a
\* string, parseClaudeOutput returns the whole raw text with no sessionId and
\* no isError, whatever session_id and is_error the object has; after exit
\* code 0 the response has the raw text, no structuredContent and isError
\* false.
RecordWithoutResultIsRawText ==
    \A r \in Req :
        (ExitedZero(r) /\ RecordWithoutResult(stdout[r])) =>
            /\ Normalized(r).resultText = stdout[r]
            /\ Normalized(r).sessionId = Undefined
            /\ Normalized(r).isError = Undefined
            /\ answer[r].kind = "result"
            /\ answer[r].text = stdout[r]
            /\ ~answer[r].structured
            /\ answer[r].threadId = << >>
            /\ answer[r].isError = FALSE

\* C29 witness: a child printed a record whose result is an object and which
\* has a string session_id and is_error true, and exited with code 0.
RecordWithoutResultIsRawTextWitness ==
    \E r \in Req :
        /\ ExitedZero(r)
        /\ stdout[r] = OutNestedResult
        /\ SessionOf(stdout[r]) = <<"abc123">>
        /\ FlagOf(stdout[r])
        /\ answer[r].kind = "result"

\* what every response has: the normalized resultText as its text, and an
\* extension, when it has one, with the identifier and a copy of the text
ResponseShape(r) ==
    /\ answer[r].text = Normalized(r).resultText
    /\ answer[r].structured =>
            /\ answer[r].threadId = Normalized(r).sessionId.s
            /\ answer[r].content = answer[r].text
    /\ ~IsSessionRecord(stdout[r]) => Normalized(r).sessionId = Undefined

\* C30 as stated: a response has the normalized resultText as its text and
\* carries the extension exactly when the normalized result has a session
\* identifier, with threadId equal to it and content equal to the text; a
\* session_id that is not a string gives no session identifier.
ExtensionIffSessionId ==
    \A r \in Req :
        answer[r].kind = "result" =>
            /\ ResponseShape(r)
            /\ answer[r].structured = (Normalized(r).sessionId # Undefined)

\* C30 amended: a response has the normalized resultText as its text and
\* carries the extension exactly when the normalized result has a session
\* identifier that is not the empty string, with threadId equal to it and
\* content equal to the text; a session_id that is not a string gives no
\* session identifier.
ExtensionIffNonEmptySessionId ==
    \A r \in Req :
        answer[r].kind = "result" =>
            /\ ResponseShape(r)
            /\ answer[r].structured =
                    (Normalized(r).sessionId # Undefined /\ Normalized(r).sessionId.s # << >>)

\* C30 witness: a child printed a record whose session_id is the empty
\* string; the normalized result has it, the response has no extension.
ExtensionIffNonEmptySessionIdWitness ==
    \E r \in Req :
        /\ answer[r].kind = "result"
        /\ stdout[r] = OutEmptySession
        /\ Normalized(r).sessionId = Str(<< >>)
        /\ ~answer[r].structured

\* the path is absolute and has no empty, "." or ".." segment
IsResolvedPath(p) ==
    /\ p # << >> /\ Head(p) = Sep
    /\ p # <<Sep>> => p[Len(p)] # Sep
    /\ \A i \in 1 .. Len(p) : p[i] \notin {".", ".."}
    /\ \A i \in 1 .. (Len(p) - 1) : ~(p[i] = Sep /\ p[i + 1] = Sep)

\* C31: every child is spawned with the timeout 1,800,000 ms; a child of a
\* call with a string workFolder has as cwd the absolute resolution of that
\* workFolder, an existing path; and two calls with the same workFolder get
\* the same cwd, whatever their tools, prompts and order are.
FixedTimeoutResolvedCwd ==
    \A r \in Slots :
        /\ Accepted(request[r]) => spawnCount[r] = 1
        /\ spawnCount[r] > 0 =>
                /\ spawnOpts[r].timeout = 1800000
                /\ IsResolvedPath(spawnOpts[r].cwd)
                /\ spawnOpts[r].cwd \in fs
                /\ IsString(request[r].workFolder) =>
                        /\ spawnOpts[r].cwd = pathResolve(request[r].workFolder.s)
                        /\ isAbsolute(request[r].workFolder.s)
                                /\ IsResolvedPath(request[r].workFolder.s)
                            => spawnOpts[r].cwd = request[r].workFolder.s
                /\ \A q \in Slots :
                        (spawnCount[q] > 0 /\ request[q].workFolder = request[r].workFolder)
                        => spawnOpts[q].cwd = spawnOpts[r].cwd

\* C31 witness: a reply given the work folder ../srv/./proj/ runs in
\* /srv/proj after an earlier claude_code call given proj, which runs there
\* too.
FixedTimeoutResolvedCwdWitness ==
    \E q \in Slots, r \in Slots :
        /\ q < r
        /\ request[q].name = "claude_code"
        /\ request[q].workFolder = Str(<<"proj">>)
        /\ request[r].name = "claude_code_reply"
        /\ request[r].workFolder = Str(<<"..", "/", "srv", "/", ".", "/", "proj", "/">>)
        /\ spawnOpts[q].cwd = <<"/", "srv", "/", "proj">>
        /\ spawnOpts[r].cwd = <<"/", "srv", "/", "proj">>
        /\ spawnOpts[r].timeout = 1800000

\* what the child of r wrote to a stream, as text
Emitted(bytes) == toString(bytes)

C32_State(r) ==
    /\ promise[r].state = "fulfilled" =>
            /\ promise[r].stdout = Emitted(child[r].wrote)
            /\ promise[r].stderr = Emitted(child[r].wroteErr)
    /\ (promise[r].state = "rejected" /\ promise[r].by = "close") =>
            promise[r].message =
                <<"Command failed with exit code", " ", CodeStr(child[r].code)>>
                    \o <<"\n", "Stderr:", " ">> \o Trim(Emitted(child[r].wroteErr))
                    \o <<"\n", "Stdout:", " ">> \o Trim(Emitted(child[r].wrote))

C32_Step ==
    \A r \in Req : Settled(r) => promise'[r] = promise[r] /\ answer'[r] = answer[r]

\* C32: the stdout and stderr delivered when the promise is settled by
\* 'close' are what the child wrote to each stream before it, every chunk
\* once and in order of arrival, and chunks that arrive after the promise
\* was settled change neither the promise nor the answer.
OutputIsWhatChildWrote ==
    /\ [](\A r \in Req : C32_State(r))
    /\ [][C32_Step]_vars

\* no override is configured: CLAUDE_CLI_NAME is unset or empty
NoOverride(name) == ~IsString(name) \/ name.s = << >>

\* what the constructor ends with for each override and each state of the
\* local installation: "threw", or the executable path
ResolutionTable(name, localExists) ==
    CASE NoOverride(name) -> IF localExists THEN LocalClaudePath ELSE <<"claude">>
      [] AbsoluteOverride(name) -> name.s
      [] RelativeLooking(name) -> "threw"
      [] OTHER -> IF localExists THEN LocalClaudePath ELSE name.s

C33_Step ==
    Constructing =>
        LET outcome == IF started' = "threw" THEN "threw" ELSE claudeCliPath' IN
        /\ NoOverride(env) =>
                /\ started' = "yes"
                /\ (LocalClaudePath \in fs) => claudeCliPath' = LocalClaudePath
                /\ (LocalClaudePath \notin fs) => claudeCliPath' = <<"claude">>
        /\ outcome = ResolutionTable(env, LocalClaudePath \in fs)

\* C33: with no override the constructor's resolution gives the local
\* installation path when it exists and the bare name 'claude' otherwise;
\* for every override the outcome is fixed by the override's value and the
\* existence of the local installation.
NoOverrideResolution == [][C33_Step]_vars

\* C33 witness: with CLAUDE_CLI_NAME unset and no local installation, a
\* child was spawned under the command name claude.
NoOverrideResolutionWitness ==
    \E r \in Req :
        /\ started = "yes"
        /\ claudeCliPath = <<"claude">>
        /\ spawnCount[r] = 1
        /\ spawnOpts[r].command = <<"claude">>

Recognized(c) == c.name \in ToolNames

C34_State ==
    /\ bannerCount \in {0, 1}
    /\ isFirstToolUse = (bannerCount = 0)
    /\ bannerCount = 1 <=> \E r \in Slots : Recognized(request[r])
    /\ \A q \in Slots, r \in Slots :
            (/\ request[q] = request[r]
             /\ child[q] = child[r]
             /\ stdout[q] = stdout[r]
             /\ stderr[q] = stderr[r])
            => answer[q] = answer[r]

C34_Step ==
    /\ ~isFirstToolUse => ~isFirstToolUse'
    /\ bannerCount' # bannerCount =>
            /\ bannerCount' = bannerCount + 1
            /\ isFirstToolUse /\ ~isFirstToolUse'
            /\ \A q \in Slots : ~Recognized(request[q])
            /\ \E r \in Slots : request[r] = NoCall /\ Recognized(request'[r])

\* C34: the banner is written once, in the step in which the first call of
\* a recognized tool arrives, whether that call is then rejected or not and
\* whatever calls of unrecognized tools came before; the flag is true until
\* then and false ever after; and two calls with the same arguments whose
\* children behave alike get the same answer, first call or not.
BannerOnce ==
    /\ []C34_State
    /\ [][C34_Step]_vars

\* C34 witness: after a call of an unrecognized tool, a claude_code call
\* with an invalid prompt was rejected and, being the first of a recognized
\* tool, had the banner written.
BannerOnceWitness ==
    \E q \in Slots, r \in Slots :
        /\ q < r
        /\ request[q].name = "other_tool"
        /\ request[r] = BadCall
        /\ FailedWith(r, "InvalidParams")
        /\ bannerCount = 1
        /\ ~isFirstToolUse

NotFoundAnswer(c) ==
    ErrorAnswer("MethodNotFound", <<"Tool", " ", c.name, " ", "not found">>)

C35_State ==
    \A r \in Slots :
        (request[r] # NoCall /\ ~Recognized(request[r])) =>
            /\ answer[r] = NotFoundAnswer(request[r])
            /\ spawnCount[r] = 0
            /\ spawnOpts[r] = NoSpawn
            /\ child[r] = NoChild
            /\ promise[r] = NoPromise

C35_Step ==
    \A r \in Slots :
        (request[r] = NoCall /\ request'[r] # NoCall /\ ~Recognized(request'[r])) =>
            /\ isFirstToolUse' = isFirstToolUse
            /\ bannerCount' = bannerCount
            /\ spawnCount' = spawnCount
            /\ child' = child

\* C35: a call of a tool other than claude_code and claude_code_reply is
\* answered with method-not-found naming the tool, whatever its arguments
\* are; no child is spawned for it, then or later, and the step in which it
\* arrives leaves the first-call flag and the banner as they were.
UnknownToolNotFound ==
    /\ []C35_State
    /\ [][C35_Step]_vars

\* C35 witness: the first call was of an unrecognized tool with a number as
\* prompt and an empty work folder; it was answered with method-not-found
\* and the flag is still true.
UnknownToolNotFoundWitness ==
    \E r \in Slots :
        /\ request[r] = CallOf("other_tool", Num(123), Undefined, Str(<< >>))
        /\ answer[r].code = "MethodNotFound"
        /\ isFirstToolUse
        /\ bannerCount = 0

====
